---- MODULE Spec2Model ----
\* Verification pipeline of the ERC-8128 library (src/src/verify.ts and the
\* helpers of src/src/lib): candidate selection, binding classification,
\* the bounded attempt loop and deferred nonce consumption, run by two
\* verifyRequest calls that share one request, one policy and one nonce store.
EXTENDS Integers, Sequences, FiniteSets, TLC

VARIABLES request, policy, store, pc, attempts, idx, tried, lastFailure,
          plan, result, examined, failures, verifyLog, consumeLog,
          overlapped, probe

vars == <<request, policy, store, pc, attempts, idx, tried, lastFailure,
          plan, result, examined, failures, verifyLog, consumeLog,
          overlapped, probe>>

\* ------------------------------------------------------------------ bounds
\* Longest Signature-Input dictionary built from every member shape.
MaxMembers == 2

\* Longest Signature-Input dictionary built from the signature-only shapes
\* (long enough for the default attempt cap to cut the walk short).
MaxCapMembers == 4

\* Longest component list of a member in the binding specification.
MaxComponents == 4

\* Latest second of the created and expires values in the time
\* specification.
MaxClock == 3

\* Largest chain id handed to formatKeyId (two decimal digits).
MaxChainId == 12

\* The verifyRequest calls made on the request, numbered in the order in
\* which they are made.
Calls == {1, 2}

\* ------------------------------------------------------- program constants
DEFAULT_MAX_SIGNATURE_VERIFICATIONS == 3
DEFAULT_MAX_VALIDITY_SEC == 300
DEFAULT_TTL_SECONDS == 60

NULL == "null"

\* ------------------------------------------------------------ sequences
Range(s) == {s[i] : i \in 1..Len(s)}

Includes(s, x) == x \in Range(s)

SetMin(S) == CHOOSE m \in S : \A x \in S : m <= x

Max2(a, b) == IF a >= b THEN a ELSE b

\* ------------------------------------------------------------ key ids
\* A text is the sequence of its characters.
DecimalDigits == <<"0", "1", "2", "3", "4", "5", "6", "7", "8", "9">>

HexDigits ==
    Range(DecimalDigits) \cup {"a", "b", "c", "d", "e", "f"}
                         \cup {"A", "B", "C", "D", "E", "F"}

\* Number of hex digits of an address (the model's addresses are short).
AddressDigits == 2

\* String.prototype.toLowerCase on the characters of the model.
toLowerCase(text) ==
    [i \in 1..Len(text) |->
        CASE text[i] = "A" -> "a" [] text[i] = "B" -> "b"
          [] text[i] = "C" -> "c" [] text[i] = "D" -> "d"
          [] text[i] = "E" -> "e" [] text[i] = "F" -> "f"
          [] text[i] = "X" -> "x"
          [] OTHER -> text[i]]

\* `${n}` for an integer n.
numberToText(n) ==
    LET RECURSIVE Render(_)
        Render(k) ==
            IF k < 10 THEN <<DecimalDigits[k + 1]>>
            ELSE Append(Render(k \div 10), DecimalDigits[(k % 10) + 1])
    IN  IF n < 0 THEN <<"-">> \o Render(0 - n) ELSE Render(n)

\* Number(text) for a text of decimal digits.
textToNumber(text) ==
    LET Value(c) == (CHOOSE d \in 1..10 : DecimalDigits[d] = c) - 1
        RECURSIVE Read(_, _)
        Read(i, acc) ==
            IF i > Len(text) THEN acc
            ELSE Read(i + 1, acc * 10 + Value(text[i]))
    IN  Read(1, 0)

\* The key identifier prefix of this revision, and the one of the revision
\* before it.
Namespace == <<"e", "r", "c", "8", "1", "2", "8", ":">>
NamespaceEip == <<"e", "i", "p", "8", "1", "2", "8", ":">>

\* formatKeyId of the revision that wrote eip8128 key identifiers.
formatKeyIdEip(chainId, address) ==
    IF Len(chainId) # 1 THEN [thrown |-> TRUE, keyid |-> <<>>]
    ELSE [thrown |-> FALSE,
          keyid |-> NamespaceEip \o numberToText(chainId[1]) \o <<":">>
                       \o toLowerCase(address)]

\* chainId is a JavaScript number: <<n>> the integer n, <<n, d>> the
\* non-integer n.d.  thrown = TRUE: INVALID_OPTIONS.
formatKeyId(chainId, address) ==
    IF Len(chainId) # 1 THEN [thrown |-> TRUE, keyid |-> <<>>]
    ELSE [thrown |-> FALSE,
          keyid |-> Namespace \o numberToText(chainId[1]) \o <<":">>
                       \o toLowerCase(address)]

\* Key identifiers of the model: two well-formed ones and one that the
\* regular expression of parseKeyId rejects.
KeyA == formatKeyId(<<1>>, <<"0", "x", "a", "a">>).keyid
KeyB == formatKeyId(<<1>>, <<"0", "x", "b", "b">>).keyid
KeyMalformed == formatKeyIdEip(<<1>>, <<"0", "x", "a", "a">>).keyid

\* parseKeyId that accepts any namespace before the chain id.
parseKeyIdAnyNamespace(keyid) ==
    LET n == Len(keyid)
        addrStart == n - (AddressDigits + 2) + 1
        digits == SubSeq(keyid, Len(Namespace) + 1, addrStart - 2)
        address == SubSeq(keyid, addrStart, n)
    IN  IF /\ n >= Len(Namespace) + 1 + 1 + 2 + AddressDigits
           /\ keyid[Len(Namespace)] = ":"
           /\ \A i \in 1..Len(digits) : digits[i] \in Range(DecimalDigits)
           /\ keyid[addrStart - 1] = ":"
           /\ address[1] = "0" /\ address[2] = "x"
           /\ \A i \in 3..Len(address) : address[i] \in HexDigits
        THEN [ok |-> TRUE, chainId |-> textToNumber(digits),
              address |-> toLowerCase(address)]
        ELSE [ok |-> FALSE, chainId |-> 0, address |-> <<>>]

\* /^erc8128:(\d+):(0x[a-fA-F0-9]{40})$/ : the namespace, at least one
\* decimal digit, a colon, and the address up to the end of the text.
\* ok = FALSE stands for the null result.
parseKeyId(keyid) ==
    LET n == Len(keyid)
        addrStart == n - (AddressDigits + 2) + 1
        digits == SubSeq(keyid, Len(Namespace) + 1, addrStart - 2)
        address == SubSeq(keyid, addrStart, n)
    IN  IF /\ n >= Len(Namespace) + 1 + 1 + 2 + AddressDigits
           /\ SubSeq(keyid, 1, Len(Namespace)) = Namespace
           /\ \A i \in 1..Len(digits) : digits[i] \in Range(DecimalDigits)
           /\ keyid[addrStart - 1] = ":"
           /\ address[1] = "0" /\ address[2] = "x"
           /\ \A i \in 3..Len(address) : address[i] \in HexDigits
        THEN [ok |-> TRUE, chainId |-> textToNumber(digits),
              address |-> toLowerCase(address)]
        ELSE [ok |-> FALSE, chainId |-> 0, address |-> <<>>]

\* ------------------------------------------------------------ strings
\* String.prototype.trim on the strings of the model: the padded spellings
\* lose their surrounding blanks, every other string is returned as it is.
trim(raw) ==
    CASE raw = " x-api " -> "x-api"
      [] raw = " " -> ""
      [] OTHER -> raw

\* ------------------------------------------------ binding classification
\* requiredRequestBoundComponents that does not ask for @query.
requiredRequestBoundComponentsNoQuery(hasQuery, hasBody, extraComponents) ==
    LET base == <<"@authority", "@method", "@path">>
        b == IF hasBody THEN Append(base, "content-digest") ELSE base
        RECURSIVE AddExtras(_, _)
        AddExtras(needed, i) ==
            IF i > Len(extraComponents) THEN needed
            ELSE IF trim(extraComponents[i]) = ""
                    \/ Includes(needed, trim(extraComponents[i]))
                 THEN AddExtras(needed, i + 1)
                 ELSE AddExtras(Append(needed, trim(extraComponents[i])),
                                i + 1)
    IN  AddExtras(b, 1)

requiredRequestBoundComponents(hasQuery, hasBody, extraComponents) ==
    LET base == <<"@authority", "@method", "@path">>
        q == IF hasQuery THEN Append(base, "@query") ELSE base
        b == IF hasBody THEN Append(q, "content-digest") ELSE q
        RECURSIVE AddExtras(_, _)
        AddExtras(needed, i) ==
            IF i > Len(extraComponents) THEN needed
            ELSE IF trim(extraComponents[i]) = ""
                    \/ Includes(needed, trim(extraComponents[i]))
                 THEN AddExtras(needed, i + 1)
                 ELSE AddExtras(Append(needed, trim(extraComponents[i])),
                                i + 1)
    IN  AddExtras(b, 1)

\* need is met by have in the order of need: an ordered subsequence.
isOrderedSubsequence(need, have) ==
    LET RECURSIVE Scan(_, _)
        Scan(i, j) ==
            IF i > Len(need) THEN TRUE
            ELSE IF j > Len(have) THEN FALSE
            ELSE IF have[j] = need[i] THEN Scan(i + 1, j + 1)
            ELSE Scan(i, j + 1)
    IN  Scan(1, 1)

\* includesAllComponents that wants the required components in their order.
includesAllComponentsInOrder(required, components) ==
    isOrderedSubsequence(required, components)

includesAllComponents(required, components) ==
    \A i \in 1..Len(required) : required[i] \in Range(components)

\* isRequestBoundForThisRequest that wants the list to begin with the
\* required components.
isRequestBoundPrefix(components, hasQuery, hasBody, extraComponents) ==
    LET needed == requiredRequestBoundComponents(hasQuery, hasBody,
                                                 extraComponents)
    IN  /\ Len(components) >= Len(needed)
        /\ SubSeq(components, 1, Len(needed)) = needed

isRequestBoundForThisRequest(components, hasQuery, hasBody, extraComponents) ==
    includesAllComponents(
        requiredRequestBoundComponents(hasQuery, hasBody, extraComponents),
        components)

normalizeComponentsList(components) ==
    LET RECURSIVE Dedup(_, _)
        Dedup(out, i) ==
            IF i > Len(components) THEN out
            ELSE IF trim(components[i]) = ""
                    \/ Includes(out, trim(components[i]))
                 THEN Dedup(out, i + 1)
                 ELSE Dedup(Append(out, trim(components[i])), i + 1)
    IN  Dedup(<<>>, 1)

\* policies is a list of component lists (the string[] form of the option is
\* the one-element list holding that list).
normalizeClassBoundPolicies(policies) ==
    [i \in 1..Len(policies) |-> normalizeComponentsList(policies[i])]

ensureAuthority(p) ==
    IF Includes(p, "@authority") THEN p ELSE <<"@authority">> \o p

\* ------------------------------------------------------ header selection
\* The raw inner-list-plus-parameters text of a member, in the fixed
\* parameter order created, expires, nonce, keyid.
signatureParamsValue(m) ==
    <<m.components, m.created, m.expires, m.nonce, m.keyid>>

\* The header pair of a request, by kind: "missing" (one of the two headers
\* is absent or empty), "malformed" (Signature-Input is not the expected
\* dictionary), "malformed_signature" (Signature-Input parses into the
\* members of the request, Signature is not the expected dictionary) and
\* "ok".  One of the two parsers raises PARSE_ERROR:
parseThrows(req) == req.sigHeaders \in {"malformed", "malformed_signature"}

\* The positions i of the members of req for which keep[i] holds, in
\* header order.
Retained(req, keep) ==
    LET RECURSIVE Collect(_)
        Collect(i) ==
            IF i > Len(req.members) THEN <<>>
            ELSE IF keep[i] THEN <<i>> \o Collect(i + 1)
            ELSE Collect(i + 1)
    IN  Collect(1)

\* selectSignatureFromHeaders that, under strictLabel, checks that the
\* label is there and then returns every candidate.
selectSignatureFromHeadersUnfiltered(req, labelPref, strictLabel) ==
    IF parseThrows(req)
    THEN [ok |-> FALSE, reason |-> "bad_signature_input", selected |-> <<>>]
    ELSE LET hasEntry == [i \in 1..Len(req.members) |->
                             req.members[i].sig.kind # "none"]
             isLabelled == [i \in 1..Len(req.members) |->
                               hasEntry[i] /\ req.members[i].label = labelPref]
         IN  IF Retained(req, hasEntry) = <<>>
                \/ (labelPref # NULL /\ strictLabel
                      /\ Retained(req, isLabelled) = <<>>)
             THEN [ok |-> FALSE, reason |-> "label_not_found", selected |-> <<>>]
             ELSE [ok |-> TRUE, reason |-> NULL,
                   selected |-> Retained(req, hasEntry)]

\* selectSignatureFromHeaders that, without strictLabel, puts the
\* candidate carrying the preferred label first.
selectSignatureFromHeadersPreferredFirst(req, labelPref, strictLabel) ==
    IF parseThrows(req)
    THEN [ok |-> FALSE, reason |-> "bad_signature_input", selected |-> <<>>]
    ELSE LET hasEntry == [i \in 1..Len(req.members) |->
                             req.members[i].sig.kind # "none"]
             isLabelled == [i \in 1..Len(req.members) |->
                               hasEntry[i] /\ req.members[i].label = labelPref]
             isOther == [i \in 1..Len(req.members) |->
                            hasEntry[i] /\ req.members[i].label # labelPref]
         IN  IF Retained(req, hasEntry) = <<>>
             THEN [ok |-> FALSE, reason |-> "label_not_found", selected |-> <<>>]
             ELSE IF labelPref # NULL /\ strictLabel
             THEN IF Retained(req, isLabelled) = <<>>
                  THEN [ok |-> FALSE, reason |-> "label_not_found",
                        selected |-> <<>>]
                  ELSE [ok |-> TRUE, reason |-> NULL,
                        selected |-> Retained(req, isLabelled)]
             ELSE [ok |-> TRUE, reason |-> NULL,
                   selected |-> Retained(req, isLabelled)
                                   \o Retained(req, isOther)]

\* selectSignatureFromHeaders that reads a Signature value it cannot parse
\* as a dictionary without entries.
selectSignatureFromHeadersLenient(req, labelPref, strictLabel) ==
    IF req.sigHeaders = "malformed"
    THEN [ok |-> FALSE, reason |-> "bad_signature_input", selected |-> <<>>]
    ELSE IF req.sigHeaders = "malformed_signature"
    THEN [ok |-> FALSE, reason |-> "label_not_found", selected |-> <<>>]
    ELSE LET hasEntry == [i \in 1..Len(req.members) |->
                             req.members[i].sig.kind # "none"]
             isLabelled == [i \in 1..Len(req.members) |->
                               hasEntry[i] /\ req.members[i].label = labelPref]
         IN  IF Retained(req, hasEntry) = <<>>
             THEN [ok |-> FALSE, reason |-> "label_not_found", selected |-> <<>>]
             ELSE IF labelPref # NULL /\ strictLabel
             THEN IF Retained(req, isLabelled) = <<>>
                  THEN [ok |-> FALSE, reason |-> "label_not_found",
                        selected |-> <<>>]
                  ELSE [ok |-> TRUE, reason |-> NULL,
                        selected |-> Retained(req, isLabelled)]
             ELSE [ok |-> TRUE, reason |-> NULL,
                   selected |-> Retained(req, hasEntry)]

\* A Signature-Input member is paired with the Signature entry of its label;
\* sig.kind = "none" when the Signature dictionary has no such entry.
\* Candidates are the positions of the selected members in Signature-Input.
selectSignatureFromHeaders(req, labelPref, strictLabel) ==
    IF parseThrows(req)
    THEN [ok |-> FALSE, reason |-> "bad_signature_input", selected |-> <<>>]
    ELSE LET RECURSIVE Collect(_, _)
             Collect(i, keep) ==
                 IF i > Len(req.members) THEN <<>>
                 ELSE IF keep[i] THEN <<i>> \o Collect(i + 1, keep)
                      ELSE Collect(i + 1, keep)
             hasEntry == [i \in 1..Len(req.members) |->
                             req.members[i].sig.kind # "none"]
             isLabelled == [i \in 1..Len(req.members) |->
                               hasEntry[i] /\ req.members[i].label = labelPref]
             candidates == Collect(1, hasEntry)
             strictCandidates == Collect(1, isLabelled)
         IN  IF candidates = <<>>
             THEN [ok |-> FALSE, reason |-> "label_not_found", selected |-> <<>>]
             ELSE IF labelPref # NULL /\ strictLabel
             THEN IF strictCandidates = <<>>
                  THEN [ok |-> FALSE, reason |-> "label_not_found",
                        selected |-> <<>>]
                  ELSE [ok |-> TRUE, reason |-> NULL,
                        selected |-> strictCandidates]
             ELSE [ok |-> TRUE, reason |-> NULL, selected |-> candidates]

\* ------------------------------------------------------ attempt building
\* buildAttempts that tries the class-bound policies before the
\* request-bound test.
buildAttemptsPolicyFirst(req, candidates, extras, required, policies) ==
    LET Matching(c) ==
            {i \in 1..Len(policies) :
                includesAllComponents(policies[i], c.components)}
        IsRB(c) == isRequestBoundForThisRequest(c.components, req.hasQuery,
                                                req.hasBody, extras)
        RECURSIVE Build(_)
        Build(i) ==
            IF i > Len(candidates) THEN <<>>
            ELSE LET c == req.members[candidates[i]]
                 IN  IF Matching(c) # {}
                     THEN <<[candidate |-> candidates[i],
                             kind |-> "class-bound",
                             policyLength |->
                                 SetMin({Len(policies[j]) :
                                            j \in Matching(c)})]>>
                          \o Build(i + 1)
                     ELSE IF IsRB(c)
                     THEN <<[candidate |-> candidates[i],
                             kind |-> "request-bound",
                             policyLength |-> Len(required)]>>
                          \o Build(i + 1)
                     ELSE Build(i + 1)
    IN  [attempts |-> Build(1),
         sawClassBound |->
             \E i \in 1..Len(candidates) : ~IsRB(req.members[candidates[i]])]

\* candidates: positions of the keyid-valid candidates, in header order.
buildAttempts(req, candidates, extras, required, policies) ==
    LET Matching(c) ==
            {i \in 1..Len(policies) :
                includesAllComponents(policies[i], c.components)}
        IsRB(c) == isRequestBoundForThisRequest(c.components, req.hasQuery,
                                                req.hasBody, extras)
        RECURSIVE Build(_)
        Build(i) ==
            IF i > Len(candidates) THEN <<>>
            ELSE LET c == req.members[candidates[i]]
                 IN  IF IsRB(c)
                     THEN <<[candidate |-> candidates[i],
                             kind |-> "request-bound",
                             policyLength |-> Len(required)]>>
                          \o Build(i + 1)
                     ELSE IF Len(policies) = 0 \/ Matching(c) = {}
                     THEN Build(i + 1)
                     ELSE <<[candidate |-> candidates[i],
                             kind |-> "class-bound",
                             policyLength |->
                                 SetMin({Len(policies[j]) :
                                            j \in Matching(c)})]>>
                          \o Build(i + 1)
    IN  [attempts |-> Build(1),
         sawClassBound |->
             \E i \in 1..Len(candidates) : ~IsRB(req.members[candidates[i]])]

\* ------------------------------------------------------ per-attempt checks
\* runTimeChecks without the test of now against expires.
runTimeChecksNoExpiry(now, skew, maxValiditySec, created, expires) ==
    LET maxValidity == IF Len(maxValiditySec) = 1 THEN maxValiditySec[1]
                       ELSE DEFAULT_MAX_VALIDITY_SEC
    IN  IF Len(created) # 1 \/ Len(expires) # 1 THEN "bad_time"
        ELSE IF expires[1] <= created[1] THEN "bad_time"
        ELSE IF now + skew < created[1] THEN "not_yet_valid"
        ELSE IF expires[1] - created[1] > maxValidity
        THEN "validity_too_long"
        ELSE NULL

\* runTimeChecks that rejects a window as long as the maximum.
runTimeChecksStrictValidity(now, skew, maxValiditySec, created, expires) ==
    LET maxValidity == IF Len(maxValiditySec) = 1 THEN maxValiditySec[1]
                       ELSE DEFAULT_MAX_VALIDITY_SEC
    IN  IF Len(created) # 1 \/ Len(expires) # 1 THEN "bad_time"
        ELSE IF expires[1] <= created[1] THEN "bad_time"
        ELSE IF now + skew < created[1] THEN "not_yet_valid"
        ELSE IF now - skew > expires[1] THEN "expired"
        ELSE IF expires[1] - created[1] >= maxValidity
        THEN "validity_too_long"
        ELSE NULL

\* runTimeChecks that bounds the validity window only when the policy
\* sets a finite maxValiditySec.
runTimeChecksNoDefault(now, skew, maxValiditySec, created, expires) ==
    IF Len(created) # 1 \/ Len(expires) # 1 THEN "bad_time"
    ELSE IF expires[1] <= created[1] THEN "bad_time"
    ELSE IF now + skew < created[1] THEN "not_yet_valid"
    ELSE IF now - skew > expires[1] THEN "expired"
    ELSE IF Len(maxValiditySec) = 1
            /\ expires[1] - created[1] > maxValiditySec[1]
    THEN "validity_too_long"
    ELSE NULL

\* An optional number of the policy is <<>> when absent (null, undefined),
\* <<n>> when set to the finite number n, and a triple when set to a number
\* that is not finite (NaN, Infinity).
\* created and expires are JavaScript values: <<n>> is the integer n,
\* <<n, d>> the non-integer number n.d and <<>> undefined.  (The header
\* parser hands verifyRequest integers only.)
runTimeChecks(now, skew, maxValiditySec, created, expires) ==
    LET maxValidity == IF Len(maxValiditySec) = 1 THEN maxValiditySec[1]
                       ELSE DEFAULT_MAX_VALIDITY_SEC
    IN  IF Len(created) # 1 \/ Len(expires) # 1 THEN "bad_time"
        ELSE IF expires[1] <= created[1] THEN "bad_time"
        ELSE IF now + skew < created[1] THEN "not_yet_valid"
        ELSE IF now - skew > expires[1] THEN "expired"
        ELSE IF expires[1] - created[1] > maxValidity
        THEN "validity_too_long"
        ELSE NULL

\* replayKey = <<>> stands for the null key.
NoPlan == [replayKey |-> <<>>, replayTtlSeconds |-> 0]

\* A nonceKey that leaves the nonce out of the key.
nonceKeyIgnoringNonce(keyid, nonce) == <<keyid, "">>

\* The default nonceKey: keyid, a colon, the nonce.
nonceKey(keyid, nonce) == <<keyid, nonce>>

\* runNonceChecks that passes a nonce-bearing candidate without planning
\* the consumption of its nonce.
runNonceChecksNoPlan(allowReplayable, m, now, hasStore, maxWindow) ==
    LET hasNonce == m.nonce # NULL /\ m.nonce # ""
    IN  IF ~hasNonce /\ ~allowReplayable
        THEN [failure |-> "replayable_not_allowed", plan |-> NoPlan]
        ELSE IF hasNonce /\ ~hasStore
        THEN [failure |-> "nonce_required", plan |-> NoPlan]
        ELSE IF hasNonce /\ maxWindow # <<>>
                /\ m.expires - m.created > maxWindow[1]
        THEN [failure |-> "nonce_window_too_long", plan |-> NoPlan]
        ELSE [failure |-> NULL, plan |-> NoPlan]

\* runNonceChecks that lets a candidate without a nonce through whatever
\* the policy says.
runNonceChecksAnyReplayable(allowReplayable, m, now, hasNonceStore, maxNonceWindowSec) ==
    LET hasNonce == m.nonce # NULL /\ m.nonce # ""
    IN  IF hasNonce
        THEN IF ~hasNonceStore
             THEN [failure |-> "nonce_required", plan |-> NoPlan]
             ELSE IF maxNonceWindowSec # <<>>
                     /\ m.expires - m.created > maxNonceWindowSec[1]
             THEN [failure |-> "nonce_window_too_long", plan |-> NoPlan]
             ELSE [failure |-> NULL,
                   plan |-> [replayKey |-> nonceKey(m.keyid, m.nonce),
                             replayTtlSeconds |-> Max2(0, m.expires - now)]]
        ELSE [failure |-> NULL, plan |-> NoPlan]

\* runNonceChecks that plans a TTL of expires - now as it comes.
runNonceChecksSignedTtl(allowReplayable, m, now, hasNonceStore, maxNonceWindowSec) ==
    LET hasNonce == m.nonce # NULL /\ m.nonce # ""
    IN  IF ~hasNonce /\ ~allowReplayable
        THEN [failure |-> "replayable_not_allowed", plan |-> NoPlan]
        ELSE IF hasNonce
        THEN IF ~hasNonceStore
             THEN [failure |-> "nonce_required", plan |-> NoPlan]
             ELSE IF maxNonceWindowSec # <<>>
                     /\ m.expires - m.created > maxNonceWindowSec[1]
             THEN [failure |-> "nonce_window_too_long", plan |-> NoPlan]
             ELSE [failure |-> NULL,
                   plan |-> [replayKey |-> nonceKey(m.keyid, m.nonce),
                             replayTtlSeconds |-> m.expires - now]]
        ELSE [failure |-> NULL, plan |-> NoPlan]

runNonceChecks(allowReplayable, m, now, hasNonceStore, maxNonceWindowSec) ==
    LET hasNonce == m.nonce # NULL /\ m.nonce # ""
    IN  IF ~hasNonce /\ ~allowReplayable
        THEN [failure |-> "replayable_not_allowed", plan |-> NoPlan]
        ELSE IF hasNonce
        THEN IF ~hasNonceStore
             THEN [failure |-> "nonce_required", plan |-> NoPlan]
             ELSE IF maxNonceWindowSec # <<>>
                     /\ m.expires - m.created > maxNonceWindowSec[1]
             THEN [failure |-> "nonce_window_too_long", plan |-> NoPlan]
             ELSE [failure |-> NULL,
                   plan |-> [replayKey |-> nonceKey(m.keyid, m.nonce),
                             replayTtlSeconds |-> Max2(0, m.expires - now)]]
        ELSE [failure |-> NULL, plan |-> NoPlan]

\* ------------------------------------------------------ signature base
MissingHeader == "missing-header"

componentValueMinimal(req, component) ==
    CASE component = "@method" -> req.method
      [] component = "@authority" -> req.authority
      [] component = "@path" -> req.path
      [] component = "@query" -> req.query
      [] OTHER -> IF component = "content-digest"
                  THEN (IF req.contentDigest = "absent" THEN MissingHeader
                        ELSE req.contentDigest)
                  ELSE IF component \in req.fields THEN component
                  ELSE MissingHeader

\* thrown = TRUE when a covered header field is missing from the request
\* (BAD_HEADER_VALUE); otherwise lines holds the component lines followed by
\* the @signature-params line.
createSignatureBaseMinimal(req, components, sigParamsValue) ==
    IF \E i \in 1..Len(components) :
           componentValueMinimal(req, components[i]) = MissingHeader
    THEN [thrown |-> TRUE, lines |-> <<>>, params |-> <<>>]
    ELSE [thrown |-> FALSE,
          lines |-> [i \in 1..Len(components) |->
                        <<components[i],
                          componentValueMinimal(req, components[i])>>],
          params |-> sigParamsValue]

buildSignatureBase(req, components, sigParamsValue) ==
    createSignatureBaseMinimal(req, components, sigParamsValue)

\* ------------------------------------------------------ collaborators
\* Signature values, by kind: "none" (no Signature entry for the label),
\* "empty" (a value base64Decode turns into null or zero bytes, such as
\* :A:), "fault" (bytes on which the injected verifier raises) and "signed"
\* (the signature of signer `by` over `msg`).
Sig(kind, by, msg) == [kind |-> kind, by |-> by, msg |-> msg]

NoBase == [thrown |-> TRUE, lines |-> <<>>, params |-> <<>>]

\* A decoder that reports bytes for every value.
base64DecodeAnything(sigB64) == TRUE

\* TRUE when the value decodes to at least one byte.
base64Decode(sigB64) == sigB64.kind # "empty"

\* The injected verifyMessage: "true", "false" or "raise".
verifyMessage(address, message, signature) ==
    IF signature.kind = "fault" THEN "raise"
    ELSE IF signature.kind = "signed" /\ signature.by = address
            /\ signature.msg = message
    THEN "true" ELSE "false"

\* Content-Digest header values, by kind: "absent" (no header), "empty"
\* (a header with an empty value), "malformed" (not <alg>=:<base64>:),
\* "sha-512" (a well-formed digest under another algorithm), "match" (the
\* SHA-256 digest of the body the request carries now) and "mismatch" (the
\* SHA-256 digest of other bytes).
\* headers.get(name) is falsy: the header is absent or its value is empty.
NoHeaderValue(v) == v \in {"absent", "empty"}

\* ok = FALSE stands for the null result.
parseContentDigest(v) ==
    CASE v \in {"match", "mismatch"} ->
            [ok |-> TRUE, alg |-> "sha-256", b64 |-> v]
      [] v = "sha-512" -> [ok |-> TRUE, alg |-> "sha-512", b64 |-> v]
      [] OTHER -> [ok |-> FALSE, alg |-> "", b64 |-> ""]

\* verifyContentDigest that does not compare the digest with the body.
verifyContentDigestUnchecked(req) ==
    IF NoHeaderValue(req.contentDigest) THEN FALSE
    ELSE parseContentDigest(req.contentDigest).ok

verifyContentDigest(req) ==
    IF NoHeaderValue(req.contentDigest) THEN FALSE
    ELSE LET parsed == parseContentDigest(req.contentDigest)
         IN  IF ~parsed.ok THEN FALSE
             ELSE IF parsed.alg # "sha-256" THEN FALSE
             ELSE parsed.b64 = "match"

\* ------------------------------------------------------ results
NoParams == [keyid |-> <<>>, created |-> 0, expires |-> 0, nonce |-> NULL]

Params(m) == [keyid |-> m.keyid, created |-> m.created,
              expires |-> m.expires, nonce |-> m.nonce]

\* member is the Signature-Input position of the winning candidate (0 for a
\* failure); it is bookkeeping, not part of the returned value.
Failure(reason) ==
    [ok |-> FALSE, reason |-> reason, member |-> 0, address |-> <<>>,
     chainId |-> 0, label |-> "", components |-> <<>>, params |-> NoParams,
     replayable |-> FALSE, binding |-> ""]

Success(req, attempt) ==
    LET m == req.members[attempt.candidate]
        key == parseKeyId(m.keyid)
    IN  [ok |-> TRUE, reason |-> NULL, member |-> attempt.candidate,
         address |-> key.address, chainId |-> key.chainId,
         label |-> m.label, components |-> m.components,
         params |-> Params(m),
         replayable |-> (m.nonce = NULL \/ m.nonce = ""),
         binding |-> attempt.kind]

NoResult == Failure(NULL)

\* ------------------------------------------------------ verifyRequest
\* policy.maxSignatureVerifications is a JavaScript value: <<>> is
\* undefined (or a value that is not a number), <<n>> the integer n,
\* <<n, d>> the non-integer number n.d with n >= 0, and a triple a number
\* that is not finite (NaN, Infinity).
IsPositiveFinite(v) ==
    \/ Len(v) = 1 /\ v[1] > 0
    \/ Len(v) = 2 /\ v[1] >= 0 /\ v[2] > 0

\* Math.floor of a finite number that is not negative.
floor(v) == v[1]

\* maxSignatureVerifications that lets one attempt too many through.
maxSignatureVerificationsOffByOne(pol) ==
    IF IsPositiveFinite(pol.maxSignatureVerifications)
    THEN floor(pol.maxSignatureVerifications) + 1
    ELSE DEFAULT_MAX_SIGNATURE_VERIFICATIONS + 1

maxSignatureVerifications(pol) ==
    IF IsPositiveFinite(pol.maxSignatureVerifications)
    THEN floor(pol.maxSignatureVerifications)
    ELSE DEFAULT_MAX_SIGNATURE_VERIFICATIONS

requestBoundExtras(pol) ==
    normalizeComponentsList(pol.additionalRequestBoundComponents)

classBoundPolicies(pol) ==
    LET n == normalizeClassBoundPolicies(pol.classBoundPolicies)
    IN  [i \in 1..Len(n) |-> ensureAuthority(n[i])]

\* emptyAttemptsReason that does not look at the configured policies.
emptyAttemptsReasonAnyShape(sawClassBound, nPolicies) ==
    IF sawClassBound THEN "class_bound_not_allowed" ELSE "not_request_bound"

\* The result when no candidate produced an attempt.
emptyAttemptsReason(sawClassBound, nPolicies) ==
    IF sawClassBound /\ nPolicies > 0 THEN "class_bound_not_allowed"
    ELSE "not_request_bound"

\* recordFailure that keeps the first failure of the call.
recordFirstFailure(st, reason) ==
    [st EXCEPT !.lastFailure = IF st.failures = <<>> THEN reason
                               ELSE st.lastFailure,
               !.failures = Append(st.failures, reason)]

\* lastFailure = {ok: false, reason}: the failure an attempt records before
\* the loop goes on (failures keeps every one of them, in order).
recordFailure(st, reason) ==
    [st EXCEPT !.lastFailure = reason,
               !.failures = Append(st.failures, reason)]

\* verifyDecision that returns ok:true without consuming the nonce.
verifyDecisionNoConsume(outcome, replayKey, hasNonceStore) ==
    CASE outcome = "true" -> "succeed"
      [] outcome = "false" -> "bad_signature"
      [] OTHER -> "bad_signature_check"

\* verifyDecision that consumes the planned nonce before looking at the
\* verifier's answer.
verifyDecisionEagerConsume(outcome, replayKey, hasNonceStore) ==
    IF replayKey # <<>> /\ hasNonceStore THEN "consume"
    ELSE CASE outcome = "true" -> "succeed"
           [] outcome = "false" -> "bad_signature"
           [] OTHER -> "bad_signature_check"

\* verifyDecision that reports an exception of the verifier as a clean
\* negative answer.
verifyDecisionRaiseAsFalse(outcome, replayKey, hasNonceStore) ==
    CASE outcome = "true" ->
            IF replayKey # <<>> /\ hasNonceStore THEN "consume" ELSE "succeed"
      [] OTHER -> "bad_signature"

\* What the loop does with the verifier's answer: consume the planned
\* nonce, return ok:true, or record a failure.
verifyDecision(outcome, replayKey, hasNonceStore) ==
    CASE outcome = "true" ->
            IF replayKey # <<>> /\ hasNonceStore THEN "consume" ELSE "succeed"
      [] outcome = "false" -> "bad_signature"
      [] OTHER -> "bad_signature_check"

\* The policy-aware order: request-bound attempts first, class-bound ones
\* by ascending policyLength, ties in the order of atts.
orderedAttempts(atts) ==
    LET Before(a, b) ==
            IF atts[a].kind # atts[b].kind
            THEN atts[a].kind = "request-bound"
            ELSE IF atts[a].kind = "class-bound"
                    /\ atts[a].policyLength # atts[b].policyLength
            THEN atts[a].policyLength < atts[b].policyLength
            ELSE a < b
        Rank(a) == Cardinality({b \in 1..Len(atts) : b # a /\ Before(b, a)})
    IN  [k \in 1..Len(atts) |->
            atts[CHOOSE a \in 1..Len(atts) : Rank(a) = k - 1]]

\* The order in which the loop walks the attempts: the order buildAttempts
\* produced them in, which is the Signature-Input order.
attemptOrder(atts) == atts

\* Everything verifyRequest does before its attempt loop: the early returns
\* (terminal = TRUE, with the reason) or the attempts to walk.
prelude(req, pol) ==
    LET selected == selectSignatureFromHeaders(req, pol.label, pol.strictLabel)
        RECURSIVE ValidFrom(_)
        ValidFrom(i) ==
            IF i > Len(selected.selected) THEN <<>>
            ELSE IF parseKeyId(req.members[selected.selected[i]].keyid).ok
                 THEN <<selected.selected[i]>> \o ValidFrom(i + 1)
                 ELSE ValidFrom(i + 1)
        validCandidates == ValidFrom(1)
        extras == requestBoundExtras(pol)
        built == buildAttempts(req, validCandidates, extras,
                     requiredRequestBoundComponents(req.hasQuery, req.hasBody,
                                                    extras),
                     classBoundPolicies(pol))
        Stop(reason) == [terminal |-> TRUE, reason |-> reason,
                         attempts |-> <<>>]
    IN  IF req.sigHeaders = "missing" THEN Stop("missing_headers")
        ELSE IF ~selected.ok THEN Stop(selected.reason)
        ELSE IF validCandidates = <<>> THEN Stop("bad_keyid")
        ELSE IF built.attempts = <<>>
        THEN Stop(emptyAttemptsReason(built.sawClassBound,
                                      Len(classBoundPolicies(pol))))
        ELSE [terminal |-> FALSE, reason |-> NULL,
              attempts |-> attemptOrder(built.attempts)]

RECURSIVE Loop(_, _, _, _, _)
\* The attempt loop from the top of iteration st.idx (stage "top") or from
\* the signature-base step of iteration st.idx (stage "base"), run up to
\* its next await, return or throw.  st carries the loop's locals.
Loop(req, pol, atts, st, stage) ==
    LET i == st.idx
        Continue(reason, tr) ==
            Loop(req, pol, atts,
                 [recordFailure(st, reason) EXCEPT
                     !.idx = i + 1, !.tried = tr, !.plan = NoPlan,
                     !.examined = IF stage = "top"
                                  THEN Append(st.examined, i)
                                  ELSE st.examined],
                 "top")
    IN  IF stage = "top"
        THEN IF i > Len(atts) \/ st.tried >= maxSignatureVerifications(pol)
             THEN [st EXCEPT !.pc = "return"]
             ELSE LET m == req.members[atts[i].candidate]
                      tr == st.tried + 1
                      timeFailure == runTimeChecks(pol.now, pol.clockSkewSec,
                                         pol.maxValiditySec, <<m.created>>,
                                         <<m.expires>>)
                      nonce == runNonceChecks(pol.replayable, m, pol.now,
                                   pol.hasNonceStore, pol.maxNonceWindowSec)
                      entered == [st EXCEPT !.tried = tr,
                                            !.plan = nonce.plan,
                                            !.examined = Append(st.examined, i)]
                  IN  IF timeFailure # NULL THEN Continue(timeFailure, tr)
                      ELSE IF nonce.failure # NULL
                      THEN Continue(nonce.failure, tr)
                      ELSE IF Includes(m.components, "content-digest")
                      THEN IF NoHeaderValue(req.contentDigest)
                           THEN Continue("digest_required", tr)
                           ELSE [entered EXCEPT !.pc = "digest"]
                      ELSE Loop(req, pol, atts, entered, "base")
        ELSE LET m == req.members[atts[i].candidate]
                 M == buildSignatureBase(req, m.components,
                                         signatureParamsValue(m))
             IN  IF M.thrown THEN [st EXCEPT !.pc = "thrown"]
                 ELSE IF ~base64Decode(m.sig)
                 THEN Continue("bad_signature_bytes", st.tried)
                 ELSE [st EXCEPT !.pc = "verify",
                          !.verifyLog = Append(st.verifyLog,
                              [member |-> atts[i].candidate,
                               address |-> parseKeyId(m.keyid).address,
                               message |-> M, signature |-> m.sig,
                               outcome |-> "pending"])]

\* ------------------------------------------------------ inputs
Labels == <<"sig1", "sig2", "sig3", "sig4", "sig5">>

RequestBound == <<"@authority", "@method", "@path">>

\* Component lists a member may declare: the request-bound set without and
\* with content-digest, three class-bound shapes, and a request-bound list
\* that also covers a header field the request does not carry.
ComponentLists ==
    {RequestBound,
     <<"@authority", "@method", "@path", "content-digest">>,
     <<"@authority">>,
     <<"@authority", "@method">>,
     <<"@authority", "@path", "x-api">>,
     <<"@authority", "@method", "@path", "x-missing">>}

\* Validity windows, against a clock that reads 15.
WindowValid == [created |-> 10, expires |-> 20]
WindowExpired == [created |-> 1, expires |-> 5]

\* A member as the signer produced it: request-bound, nonce n1, in its
\* window, correctly signed by the key its keyid names.
BaseShape == [components |-> RequestBound, keyid |-> KeyA,
              window |-> WindowValid, nonce |-> "n1", sigKind |-> "valid"]

\* The members of the model: BaseShape and every change of one of its parts.
MemberShapes ==
    {[BaseShape EXCEPT !.components = c] : c \in ComponentLists}
    \cup {[BaseShape EXCEPT !.keyid = k] : k \in {KeyMalformed}}
    \cup {[BaseShape EXCEPT !.window = w] : w \in {WindowExpired}}
    \cup {[BaseShape EXCEPT !.nonce = n] : n \in {NULL, "n2"}}
    \cup {[BaseShape EXCEPT !.sigKind = k] :
             k \in {"none", "empty", "forged", "fault"}}

\* The shapes that differ from BaseShape in the signature only.
SignatureShapes ==
    {[BaseShape EXCEPT !.sigKind = k] : k \in {"valid", "forged", "fault"}}

PlainShape == [hasBody |-> FALSE, contentDigest |-> "absent"]

RequestShapes ==
    {PlainShape,
     [hasBody |-> TRUE, contentDigest |-> "match"],
     [hasBody |-> TRUE, contentDigest |-> "mismatch"]}

BareRequest(shape, sigHeaders) ==
    [sigHeaders |-> sigHeaders, members |-> <<>>,
     method |-> IF shape.hasBody THEN "POST" ELSE "GET",
     authority |-> "example.com", path |-> "/orders", query |-> "",
     hasQuery |-> FALSE, hasBody |-> shape.hasBody,
     contentDigest |-> shape.contentDigest, fields |-> {"x-api"}]

\* The member at Signature-Input position i made from shape sh, its
\* signature computed over the signature base of the request it travels on.
Member(bare, i, sh) ==
    LET m0 == [label |-> Labels[i], components |-> sh.components,
               keyid |-> sh.keyid, created |-> sh.window.created,
               expires |-> sh.window.expires, nonce |-> sh.nonce]
        base == createSignatureBaseMinimal(bare, sh.components,
                                           signatureParamsValue(m0))
        signer == IF parseKeyId(sh.keyid).ok
                  THEN parseKeyId(sh.keyid).address
                  ELSE <<"0", "x", "a", "a">>
        sig == CASE sh.sigKind = "valid" -> Sig("signed", signer, base)
                 [] sh.sigKind = "forged" -> Sig("signed", <<"0", "x", "e", "e">>, base)
                 [] OTHER -> Sig(sh.sigKind, <<>>, NoBase)
    IN  [label |-> Labels[i], components |-> sh.components,
         keyid |-> sh.keyid, created |-> sh.window.created,
         expires |-> sh.window.expires, nonce |-> sh.nonce, sig |-> sig]

ClassBoundPolicyOptions ==
    {<<>>,
     << <<"@authority">> >>,
     << <<"@method">>, <<"@path", "x-api">> >>}

\* The default policy, on a clock that reads 15.
DefaultPolicy ==
    [label |-> NULL, strictLabel |-> FALSE,
     additionalRequestBoundComponents |-> <<>>,
     classBoundPolicies |-> <<>>, replayable |-> FALSE,
     maxSignatureVerifications |-> <<>>,
     now |-> 15, clockSkewSec |-> 0, maxValiditySec |-> <<>>,
     maxNonceWindowSec |-> <<>>, hasNonceStore |-> TRUE]

Policies ==
    {[DefaultPolicy EXCEPT !.classBoundPolicies = cb] :
        cb \in ClassBoundPolicyOptions}
    \cup {[DefaultPolicy EXCEPT !.classBoundPolicies = cb,
                                !.maxSignatureVerifications = <<1>>] :
             cb \in {<<>>, << <<"@authority">> >>}}
    \cup {[DefaultPolicy EXCEPT !.replayable = TRUE]}

\* ------------------------------------------------------ advertisement
\* The parameters an Accept-Signature entry asks for.
serializeAcceptSignatureValue(components, requireNonce) ==
    [components |-> components,
     params |-> IF requireNonce
                THEN <<"keyid", "created", "expires", "nonce">>
                ELSE <<"keyid", "created", "expires">>]

\* The entries of the Accept-Signature value, in order: label sig<index>
\* and value.  An entry is added unless its component list was seen.
buildAcceptSignatureHeader(requestBoundRequired, policies, requireNonce) ==
    LET lists == <<requestBoundRequired>> \o policies
        RECURSIVE addEntry(_, _)
        addEntry(entries, i) ==
            IF i > Len(lists) THEN entries
            ELSE IF \E k \in 1..Len(entries) :
                       entries[k].value.components = lists[i]
            THEN addEntry(entries, i + 1)
            ELSE addEntry(
                     Append(entries,
                            [label |-> Labels[Len(entries) + 1],
                             value |-> serializeAcceptSignatureValue(
                                           lists[i], requireNonce)]),
                     i + 1)
    IN  addEntry(<<>>, 1)

\* ------------------------------------------------------ state machine
\* probe holds a direct call of an exported helper: its arguments and, once
\* the call was made, its result.  NoProbe: no such call.
NoProbe == [fn |-> NULL, args |-> <<>>, called |-> FALSE, out |-> NULL]

InitCall == [pc |-> "idle", idx |-> 1, tried |-> 0,
             lastFailure |-> "bad_signature", plan |-> NoPlan,
             examined |-> <<>>, failures |-> <<>>, verifyLog |-> <<>>]

\* The request of the given shape whose Signature-Input holds one member
\* per element of shs.  (Init takes a wrong Content-Digest header only
\* together with a member that covers content-digest: nothing else reads
\* the header.)
SignedRequest(shape, shs) ==
    [BareRequest(shape, "ok") EXCEPT !.members =
        [i \in 1..Len(shs) |-> Member(BareRequest(shape, "ok"), i, shs[i])]]

\* The request bare with one Signature-Input member per element of shs.
SignedOn(bare, shs) ==
    [bare EXCEPT !.members = [i \in 1..Len(shs) |-> Member(bare, i, shs[i])]]

\* The state in which no verifyRequest call has been made yet on request
\* req under policy pol, with a fresh nonce store, and the direct call pr
\* of a helper is about to be made.
StartWith(req, pol, pr) ==
    /\ request = req
    /\ policy = pol
    /\ store = {}
    /\ pc = [p \in Calls |-> "idle"]
    /\ attempts = [p \in Calls |-> <<>>]
    /\ idx = [p \in Calls |-> 1]
    /\ tried = [p \in Calls |-> 0]
    /\ lastFailure = [p \in Calls |-> "bad_signature"]
    /\ plan = [p \in Calls |-> NoPlan]
    /\ result = [p \in Calls |-> NoResult]
    /\ examined = [p \in Calls |-> <<>>]
    /\ failures = [p \in Calls |-> <<>>]
    /\ overlapped = FALSE
    /\ verifyLog = [p \in Calls |-> <<>>]
    /\ consumeLog = [p \in Calls |-> <<>>]
    /\ probe = pr

Start(req, pol) == StartWith(req, pol, NoProbe)

Init ==
    /\ \/ \E h \in {"missing", "malformed"} :
             request = BareRequest(PlainShape, h)
       \/ \E shape \in RequestShapes : \E n \in 1..MaxMembers :
             \E shs \in [1..n -> MemberShapes] :
                /\ shape.contentDigest = "mismatch" =>
                      \E i \in 1..n : Includes(shs[i].components,
                                                "content-digest")
                /\ request = SignedRequest(shape, shs)
       \/ \E n \in (MaxMembers + 1)..MaxCapMembers :
             \E shs \in [1..n -> SignatureShapes] :
                request = SignedRequest(PlainShape, shs)
    /\ policy \in Policies
    /\ store = {}
    /\ pc = [p \in Calls |-> "idle"]
    /\ attempts = [p \in Calls |-> <<>>]
    /\ idx = [p \in Calls |-> 1]
    /\ tried = [p \in Calls |-> 0]
    /\ lastFailure = [p \in Calls |-> "bad_signature"]
    /\ plan = [p \in Calls |-> NoPlan]
    /\ result = [p \in Calls |-> NoResult]
    /\ examined = [p \in Calls |-> <<>>]
    /\ failures = [p \in Calls |-> <<>>]
    /\ overlapped = FALSE
    /\ verifyLog = [p \in Calls |-> <<>>]
    /\ consumeLog = [p \in Calls |-> <<>>]
    /\ probe = NoProbe

Cur(p) == [pc |-> pc[p], idx |-> idx[p], tried |-> tried[p],
           lastFailure |-> lastFailure[p], plan |-> plan[p],
           examined |-> examined[p], failures |-> failures[p],
           verifyLog |-> verifyLog[p]]

\* Store the loop's locals of call p; a loop that ran out returns its
\* last recorded failure.
Install(p, st) ==
    /\ pc' = [pc EXCEPT ![p] = IF st.pc = "return" THEN "done" ELSE st.pc]
    /\ idx' = [idx EXCEPT ![p] = st.idx]
    /\ tried' = [tried EXCEPT ![p] = st.tried]
    /\ lastFailure' = [lastFailure EXCEPT ![p] = st.lastFailure]
    /\ plan' = [plan EXCEPT ![p] = st.plan]
    /\ examined' = [examined EXCEPT ![p] = st.examined]
    /\ failures' = [failures EXCEPT ![p] = st.failures]
    /\ verifyLog' = [verifyLog EXCEPT ![p] = st.verifyLog]
    /\ result' = IF st.pc = "return"
                 THEN [result EXCEPT ![p] = Failure(st.lastFailure)]
                 ELSE result

\* Abandon iteration idx[p] with the given failure and go on with the next.
NextAttempt(p, st, reason) ==
    Loop(request, policy, attempts[p],
         [recordFailure(st, reason) EXCEPT !.idx = st.idx + 1,
                                           !.plan = NoPlan],
         "top")

\* Return ok:true for the attempt call p is on.
Succeed(p, st) ==
    /\ pc' = [pc EXCEPT ![p] = "done"]
    /\ result' = [result EXCEPT ![p] = Success(request, attempts[p][idx[p]])]
    /\ verifyLog' = [verifyLog EXCEPT ![p] = st.verifyLog]
    /\ UNCHANGED <<idx, tried, lastFailure, plan, examined, failures>>

\* verifyRequest is called: everything up to its first await or its return.
\* A setHeaders callback (probe.fn = "setHeaders") is handed the
\* Accept-Signature value first.
Call(p) ==
    /\ pc[p] = "idle"
    /\ \A q \in Calls : q < p => pc[q] # "idle"
    /\ LET pre == prelude(request, policy)
       IN  IF pre.terminal
           THEN /\ pc' = [pc EXCEPT ![p] = "done"]
                /\ result' = [result EXCEPT ![p] = Failure(pre.reason)]
                /\ UNCHANGED <<attempts, idx, tried, lastFailure, plan,
                               examined, failures, verifyLog>>
           ELSE /\ attempts' = [attempts EXCEPT ![p] = pre.attempts]
                /\ Install(p, Loop(request, policy, pre.attempts, InitCall,
                                   "top"))
    /\ overlapped' = (overlapped
                       \/ \E q \in Calls : pc[q] \in {"digest", "verify",
                                                       "consume"})
    /\ probe' = IF probe.fn = "setHeaders"
                THEN [probe EXCEPT
                         !.called = TRUE,
                         !.out = buildAcceptSignatureHeader(
                                     requiredRequestBoundComponents(
                                         request.hasQuery, request.hasBody,
                                         requestBoundExtras(policy)),
                                     classBoundPolicies(policy),
                                     ~policy.replayable)]
                ELSE probe
    /\ UNCHANGED <<request, policy, store, consumeLog>>

\* await verifyContentDigest(request) resumes.
DigestReturn(p) ==
    /\ pc[p] = "digest"
    /\ IF verifyContentDigest(request)
       THEN Install(p, Loop(request, policy, attempts[p], Cur(p), "base"))
       ELSE Install(p, NextAttempt(p, Cur(p), "digest_mismatch"))
    /\ UNCHANGED <<request, policy, store, attempts, consumeLog,
                   overlapped, probe>>

\* await verifyFn(...) resumes: with true, false or an exception.
VerifyReturn(p) ==
    /\ pc[p] = "verify"
    /\ LET n == Len(verifyLog[p])
           call == verifyLog[p][n]
           outcome == verifyMessage(call.address, call.message, call.signature)
           st == [Cur(p) EXCEPT !.verifyLog[n].outcome = outcome]
           decision == verifyDecision(outcome, plan[p].replayKey,
                                      policy.hasNonceStore)
       IN  CASE decision = "consume" ->
                  Install(p, [st EXCEPT !.pc = "consume"])
             [] decision = "succeed" -> Succeed(p, st)
             [] OTHER -> Install(p, NextAttempt(p, st, decision))
    /\ UNCHANGED <<request, policy, store, attempts, consumeLog,
                   overlapped, probe>>

\* await replayStore.consume(key, ttl) resumes; the store checks and sets
\* the key in one step.
ConsumeReturn(p) ==
    /\ pc[p] = "consume"
    /\ LET key == plan[p].replayKey
           consumed == key \notin store
       IN  /\ store' = store \cup {key}
           /\ consumeLog' = [consumeLog EXCEPT ![p] = Append(@,
                  [key |-> key, ttl |-> plan[p].replayTtlSeconds,
                   member |-> attempts[p][idx[p]].candidate,
                   consumed |-> consumed])]
           /\ IF consumed THEN Succeed(p, Cur(p))
              ELSE Install(p, NextAttempt(p, Cur(p), "replay"))
    /\ UNCHANGED <<request, policy, attempts, overlapped, probe>>

Next == \E p \in Calls :
          \/ Call(p)
          \/ DigestReturn(p)
          \/ VerifyReturn(p)
          \/ ConsumeReturn(p)

Spec == Init /\ [][Next]_vars

\* One verifyRequest call on its own.
NextSolo ==
    \/ Call(1)
    \/ DigestReturn(1)
    \/ VerifyReturn(1)
    \/ ConsumeReturn(1)

TypeOK ==
    /\ \A p \in Calls :
          pc[p] \in {"idle", "digest", "verify", "consume", "done", "thrown"}
    /\ \A p \in Calls : tried[p] \in 0..MaxCapMembers

\* ------------------------------------------------------ binding inputs
\* The components a member may cover, in their canonical order.
Universe ==
    <<"@authority", "@method", "@path", "@query", "content-digest", "x-api">>

Position(c) == CHOOSE k \in 1..Len(Universe) : Universe[k] = c

\* The lists of n distinct components.
ListsOfLength(n) ==
    {l \in [1..n -> Range(Universe)] :
        \A i, j \in 1..n : i # j => l[i] # l[j]}

\* The lists that follow the canonical order.
CanonicalLists ==
    {l \in UNION {ListsOfLength(n) : n \in 1..MaxComponents} :
        \A i, j \in 1..Len(l) : i < j => Position(l[i]) < Position(l[j])}

PermutationsOf(l) ==
    {q \in ListsOfLength(Len(l)) : Range(q) = Range(l)}

\* l without its k-th component.
Without(l, k) == SubSeq(l, 1, k - 1) \o SubSeq(l, k + 1, Len(l))

\* The two component lists of a request: a canonical list followed by one
\* of its reorderings, a canonical list short of one component followed by
\* the whole list, or a reordering of the basic request-bound list followed
\* by that list.
ComponentPairs ==
    UNION {{<<l, q>> : q \in PermutationsOf(l)} : l \in CanonicalLists}
    \cup UNION {{<<Without(l, k), l>> : k \in 1..Len(l)} :
                   l \in {c \in CanonicalLists : Len(c) >= 2}}
    \cup {<<q, RequestBound>> : q \in PermutationsOf(RequestBound)}

\* GET or POST, without and with a query string.
BindingRequests ==
    {BareRequest(PlainShape, "ok"),
     BareRequest([hasBody |-> TRUE, contentDigest |-> "match"], "ok"),
     [BareRequest(PlainShape, "ok") EXCEPT !.query = "?a=1",
                                           !.hasQuery = TRUE],
     [BareRequest([hasBody |-> TRUE, contentDigest |-> "match"], "ok")
         EXCEPT !.query = "?a=1", !.hasQuery = TRUE]}

\* The default policy, an extra request-bound component spelled with
\* blanks next to a blank entry, and the class-bound policies.
BindingPolicies ==
    {[DefaultPolicy EXCEPT !.classBoundPolicies = cb] :
        cb \in ClassBoundPolicyOptions}
    \cup {[DefaultPolicy EXCEPT
              !.additionalRequestBoundComponents = <<" x-api ", " ">>]}

InitBinding ==
    \E bare \in BindingRequests : \E pr \in ComponentPairs :
       \E pol \in BindingPolicies :
          Start(SignedOn(bare, <<[BaseShape EXCEPT !.components = pr[1]],
                                 [BaseShape EXCEPT !.components = pr[2],
                                                   !.nonce = "n2"]>>),
                pol)

SpecBinding == InitBinding /\ [][NextSolo]_vars

\* ------------------------------------------------------ per-attempt inputs
\* Members that differ from BaseShape in one part, without and with
\* content-digest among their components.
CheckShapes ==
    {[d EXCEPT !.components = c] :
        d \in {BaseShape,
                [BaseShape EXCEPT !.keyid = KeyMalformed],
                [BaseShape EXCEPT !.nonce = NULL],
                [BaseShape EXCEPT !.nonce = ""],
                [BaseShape EXCEPT !.sigKind = "forged"],
                [BaseShape EXCEPT !.sigKind = "fault"]},
        c \in {RequestBound, Append(RequestBound, "content-digest")}}

\* A request without a body, and requests with a body under every kind of
\* Content-Digest header.
CheckRequests ==
    {BareRequest(PlainShape, "ok")}
    \cup {BareRequest([hasBody |-> TRUE, contentDigest |-> h], "ok") :
             h \in {"absent", "empty", "malformed", "sha-512", "match",
                     "mismatch"}}

CheckPolicies ==
    {[DefaultPolicy EXCEPT !.replayable = r, !.classBoundPolicies = cb] :
        r \in BOOLEAN, cb \in {<<>>, << <<"@authority">> >>}}

InitChecks ==
    \E bare \in CheckRequests : \E n \in 1..MaxMembers :
       \E shs \in [1..n -> CheckShapes] : \E pol \in CheckPolicies :
          Start(SignedOn(bare, shs), pol)

SpecChecks == InitChecks /\ [][NextSolo]_vars

\* ------------------------------------------------------ check-order inputs
\* A window whose expires is not after created.
WindowInverted == [created |-> 10, expires |-> 10]

\* Members in which any number of checks fail at once: the window, the
\* nonce, the covered components (content-digest, or a header field the
\* request does not carry) and the signature vary independently.
OrderShapes ==
    {[BaseShape EXCEPT !.window = w, !.nonce = n, !.components = c,
                       !.sigKind = k] :
        w \in {WindowValid, WindowExpired, WindowInverted},
        n \in {"n1", NULL},
        c \in {RequestBound, Append(RequestBound, "content-digest"),
                Append(RequestBound, "x-missing")},
        k \in {"valid", "forged", "empty", "fault"}}

OrderRequests ==
    {BareRequest(PlainShape, "ok")}
    \cup {BareRequest([hasBody |-> TRUE, contentDigest |-> h], "ok") :
             h \in {"absent", "match", "mismatch"}}

\* Every candidate is attempted, as a class-bound one at least.
OrderPolicies ==
    {[DefaultPolicy EXCEPT !.replayable = r, !.hasNonceStore = ns,
                           !.classBoundPolicies = << <<"@authority">> >>] :
        r \in BOOLEAN, ns \in BOOLEAN}

\* The request carries one member of any shape, alone or followed by a
\* member as the signer produced it.
InitOrder ==
    \E bare \in OrderRequests : \E sh \in OrderShapes :
       \E rest \in {<<>>, <<BaseShape>>} : \E pol \in OrderPolicies :
          Start(SignedOn(bare, <<sh>> \o rest), pol)

SpecOrder == InitOrder /\ [][Next]_vars

\* ------------------------------------------------------ attempt-cap inputs
\* The values of policy.maxSignatureVerifications: absent, zero, negative,
\* not finite, fractions below and above 1, and integers.
CapValues ==
    {<<>>, <<0>>, <<0 - 1>>, <<0, 0, 0>>, <<0, 5>>, <<1, 5>>, <<1>>, <<2>>}

CapPolicies ==
    {[DefaultPolicy EXCEPT !.maxSignatureVerifications = v] : v \in CapValues}

\* A POST carrying up to MaxMembers candidates that cover content-digest
\* and differ in their signature only.
InitCap ==
    \E n \in 1..MaxMembers : \E shs \in [1..n -> SignatureShapes] :
       \E pol \in CapPolicies :
          Start(SignedOn(BareRequest([hasBody |-> TRUE,
                                      contentDigest |-> "match"], "ok"),
                         [i \in 1..n |->
                             [shs[i] EXCEPT !.components =
                                 Append(RequestBound, "content-digest")]]),
                pol)

SpecCap == InitCap /\ [][NextSolo]_vars

\* ------------------------------------------------------ nonce-plan inputs
\* Clocks, skews and maxNonceWindowSec settings, with and without
\* replayable signatures allowed.
NoncePolicies ==
    {[DefaultPolicy EXCEPT !.now = n, !.clockSkewSec = k,
                           !.maxNonceWindowSec = w, !.replayable = r] :
        n \in 0..(MaxClock + 1), k \in {0, 1}, w \in {<<>>, <<1>>, <<2>>},
        r \in BOOLEAN}

\* A POST whose only candidate covers content-digest, with every validity
\* window up to MaxClock, with a nonce or without.
InitNonce ==
    \E c \in 0..MaxClock : \E e \in 0..MaxClock :
       \E n \in {"n1", NULL} : \E pol \in NoncePolicies :
          Start(SignedOn(BareRequest([hasBody |-> TRUE,
                                      contentDigest |-> "match"], "ok"),
                         <<[BaseShape EXCEPT
                               !.components = Append(RequestBound,
                                                     "content-digest"),
                               !.window = [created |-> c, expires |-> e],
                               !.nonce = n]>>),
                pol)

SpecNonce == InitNonce /\ [][NextSolo]_vars

\* ------------------------------------------------------ validity-cap inputs
\* Validity windows of one second and around the default maximum.
ValidityWindows ==
    {[created |-> c, expires |-> e] :
        c \in 0..1,
        e \in {2, DEFAULT_MAX_VALIDITY_SEC, DEFAULT_MAX_VALIDITY_SEC + 1,
                DEFAULT_MAX_VALIDITY_SEC + 2}}

\* maxValiditySec absent, not finite, and set below and above the default.
ValidityPolicies ==
    {[DefaultPolicy EXCEPT !.now = n, !.clockSkewSec = k,
                           !.maxValiditySec = v] :
        n \in 1..2, k \in {0, 1},
        v \in {<<>>, <<0, 0, 0>>, <<2>>, <<DEFAULT_MAX_VALIDITY_SEC + 1>>}}

InitValidity ==
    \E w \in ValidityWindows : \E k \in {"valid", "forged"} :
       \E pol \in ValidityPolicies :
          Start(SignedOn(BareRequest([hasBody |-> TRUE,
                                      contentDigest |-> "match"], "ok"),
                         <<[BaseShape EXCEPT
                               !.components = Append(RequestBound,
                                                     "content-digest"),
                               !.window = w, !.sigKind = k]>>),
                pol)

SpecValidity == InitValidity /\ [][NextSolo]_vars

\* ------------------------------------------------------ termination
\* The verify function, the nonce store and the digest computation answer
\* call p: the await it is suspended on resumes.
Resumes(p) == DigestReturn(p) \/ VerifyReturn(p) \/ ConsumeReturn(p)

\* Candidates that differ in their covered components and signature.
LiveShapes ==
    {[BaseShape EXCEPT !.components = c, !.sigKind = k] :
        c \in {RequestBound, Append(RequestBound, "content-digest"),
                Append(RequestBound, "x-missing")},
        k \in {"valid", "forged", "fault"}}

\* The default attempt cap and a cap of 1, every candidate being attempted
\* as a class-bound one at least.
LivePolicies ==
    {[DefaultPolicy EXCEPT !.maxSignatureVerifications = v,
                           !.classBoundPolicies = << <<"@authority">> >>] :
        v \in {<<>>, <<1>>}}

\* A GET or a POST carrying one candidate, alone or followed by a
\* candidate as the signer produced it.
InitLive ==
    \E shape \in {PlainShape, [hasBody |-> TRUE, contentDigest |-> "match"]} :
       \E sh \in LiveShapes : \E rest \in {<<>>, <<BaseShape>>} :
          \E pol \in LivePolicies :
             Start(SignedOn(BareRequest(shape, "ok"), <<sh>> \o rest), pol)

\* Two calls, every await of which resumes in the end.
SpecLive ==
    /\ InitLive
    /\ [][Next]_vars
    /\ \A p \in Calls : WF_vars(Resumes(p))

\* ------------------------------------------------------ time inputs
\* The validity windows of the time specification: every pair of seconds
\* up to MaxClock, and two windows around the default maximum validity.
TimeWindows ==
    {[created |-> c, expires |-> e] : c \in 0..MaxClock, e \in 0..MaxClock}
    \cup {[created |-> 0, expires |-> DEFAULT_MAX_VALIDITY_SEC],
          [created |-> 0, expires |-> DEFAULT_MAX_VALIDITY_SEC + 1]}

\* Clocks, skews and maxValiditySec settings of the time specification.
TimePolicies ==
    {[DefaultPolicy EXCEPT !.now = n, !.clockSkewSec = k,
                           !.maxValiditySec = v] :
        n \in (0 - 1)..(MaxClock + 1), k \in {0, 1}, v \in {<<>>, <<2>>}}

\* The values runTimeChecks may be handed as created or expires:
\* undefined, an integer, a number that is not an integer.
TimeValues ==
    {<<>>} \cup {<<n>> : n \in 0..MaxClock} \cup {<<n, 5>> : n \in 0..MaxClock}

\* Either verifyRequest is called on a POST whose only candidate covers
\* the request-bound components, or runTimeChecks is called directly.
InitTime ==
    \/ \E w \in TimeWindows : \E pol \in TimePolicies :
          Start(SignedOn(BareRequest([hasBody |-> TRUE,
                                      contentDigest |-> "match"], "ok"),
                         <<[BaseShape EXCEPT
                               !.components = Append(RequestBound,
                                                     "content-digest"),
                               !.window = w]>>),
                pol)
    \/ \E pol \in TimePolicies : \E c \in TimeValues : \E e \in TimeValues :
          StartWith(BareRequest(PlainShape, "missing"), pol,
                    [fn |-> "runTimeChecks",
                     args |-> <<pol.now, pol.clockSkewSec,
                                pol.maxValiditySec, c, e>>,
                     called |-> FALSE, out |-> NULL])

\* runTimeChecks is called directly with the arguments the probe holds.
ApplyRunTimeChecks ==
    /\ probe.fn = "runTimeChecks"
    /\ ~probe.called
    /\ probe' = [probe EXCEPT
                    !.called = TRUE,
                    !.out = runTimeChecks(probe.args[1], probe.args[2],
                                          probe.args[3], probe.args[4],
                                          probe.args[5])]
    /\ UNCHANGED <<request, policy, store, pc, attempts, idx, tried,
                   lastFailure, plan, result, examined, failures, verifyLog,
                   consumeLog, overlapped>>

NextTime == NextSolo \/ ApplyRunTimeChecks

SpecTime == InitTime /\ [][NextTime]_vars

\* ------------------------------------------------------ label inputs
\* Members for the label specification: as signed, covering content-digest
\* as well, forged, without a Signature entry, with a malformed keyid.
LabelShapes ==
    {BaseShape,
     [BaseShape EXCEPT !.components = Append(RequestBound, "content-digest")],
     [BaseShape EXCEPT !.sigKind = "forged"],
     [BaseShape EXCEPT !.sigKind = "none"],
     [BaseShape EXCEPT !.keyid = KeyMalformed]}

\* No label, the label of the first or of the second member, a label no
\* member carries; with and without strictLabel.
LabelPolicies ==
    {[DefaultPolicy EXCEPT !.label = l, !.strictLabel = b] :
        l \in {NULL, Labels[1], Labels[2], "eth"}, b \in BOOLEAN}

InitLabel ==
    \E shape \in {PlainShape, [hasBody |-> TRUE, contentDigest |-> "match"]} :
       \E n \in 1..MaxMembers : \E shs \in [1..n -> LabelShapes] :
          \E pol \in LabelPolicies :
             Start(SignedRequest(shape, shs), pol)

SpecLabel == InitLabel /\ [][NextSolo]_vars

\* ------------------------------------------------------ signing
\* resolveNonce: the explicit string, what the callback resolves to, or 16
\* random bytes in base64url ("rnd").  The nonce option is <<>> when
\* absent, <<"string", v>> or <<"function", v>>.
resolveNonce(opts) ==
    IF opts.nonce = <<>> THEN "rnd" ELSE opts.nonce[2]

\* defaultComponents that leaves @query out.
defaultComponentsNoQuery(binding, hasQuery, hasBody) ==
    IF binding = "class-bound" THEN <<"@authority">>
    ELSE LET c == <<"@authority", "@method", "@path">>
         IN  IF hasBody THEN Append(c, "content-digest") ELSE c

defaultComponents(binding, hasQuery, hasBody) ==
    IF binding = "class-bound" THEN <<"@authority">>
    ELSE LET c == <<"@authority", "@method", "@path">>
             q == IF hasQuery THEN Append(c, "@query") ELSE c
         IN  IF hasBody THEN Append(q, "content-digest") ELSE q

\* components.map((c) => c.trim()).filter(Boolean)
normalizeComponents(components) ==
    LET RECURSIVE Keep(_)
        Keep(i) ==
            IF i > Len(components) THEN <<>>
            ELSE IF trim(components[i]) = "" THEN Keep(i + 1)
            ELSE <<trim(components[i])>> \o Keep(i + 1)
    IN  Keep(1)

\* providedComponents is <<>> when the option is absent and <<list>> when
\* it is given.  thrown = TRUE: INVALID_OPTIONS.
resolveComponents(binding, hasQuery, hasBody, providedComponents) ==
    IF binding = "request-bound"
    THEN LET base == defaultComponents(binding, hasQuery, hasBody)
             RECURSIVE Extra(_, _)
             Extra(l, i) ==
                 IF i > Len(l) THEN <<>>
                 ELSE IF Includes(base, l[i]) THEN Extra(l, i + 1)
                 ELSE <<l[i]>> \o Extra(l, i + 1)
         IN  [thrown |-> FALSE,
              components |->
                  IF providedComponents = <<>> THEN base
                  ELSE base \o Extra(normalizeComponents(
                                         providedComponents[1]), 1)]
    ELSE IF providedComponents = <<>>
    THEN [thrown |-> TRUE, components |-> <<>>]
    ELSE [thrown |-> FALSE,
          components |->
              ensureAuthority(normalizeComponents(providedComponents[1]))]

\* thrown = TRUE: DIGEST_REQUIRED.  "match" is the SHA-256 digest of the
\* body the request carries.
setContentDigestHeader(req, mode) ==
    IF mode = "off" THEN [thrown |-> TRUE, request |-> req]
    ELSE IF mode = "require" /\ NoHeaderValue(req.contentDigest)
    THEN [thrown |-> TRUE, request |-> req]
    ELSE IF ~NoHeaderValue(req.contentDigest) /\ mode = "auto"
    THEN [thrown |-> FALSE, request |-> req]
    ELSE [thrown |-> FALSE,
          request |-> [req EXCEPT !.contentDigest = "match"]]

\* A JavaScript number: <<n>> is the integer n and <<n, d>> the
\* non-integer n.d (n >= 0, d a decimal digit other than 0).
Tenths(v) == v[1] * 10 + (IF Len(v) = 2 THEN v[2] ELSE 0)

\* a + b.
plus(a, b) ==
    LET t == Tenths(a) + Tenths(b)
    IN  IF t % 10 = 0 THEN <<t \div 10>> ELSE <<t \div 10, t % 10>>

\* The assertion without its test of expires against created.
assertSignatureParamsIntegersOnly(params) ==
    \/ Len(params.created) # 1 \/ Len(params.expires) # 1
    \/ params.keyid = <<>>

\* TRUE: INVALID_OPTIONS is thrown.  created and expires are JavaScript
\* numbers.
assertSignatureParamsForSerialization(params) ==
    \/ Len(params.created) # 1 \/ Len(params.expires) # 1
    \/ params.expires[1] <= params.created[1]
    \/ params.keyid = <<>>

\* The member value in its fixed parameter order; a nonce that is null or
\* undefined is left out.
serializeSignatureParamsInnerList(components, params) ==
    <<components, params.created[1], params.expires[1], params.nonce,
      params.keyid>>

\* The member the verifier's parser reads out of label=value, paired with
\* the Signature entry of the same label.
parseInnerListWithParams(label, value, sig) ==
    [label |-> label, components |-> value[1], keyid |-> value[5],
     created |-> value[2], expires |-> value[3], nonce |-> value[4],
     sig |-> sig]

\* signer.signMessage(M): an empty signature, or the signature of the
\* signer's account over M.
signMessage(signer, M) ==
    IF signer.kind = "empty" THEN Sig("empty", <<>>, NoBase)
    ELSE Sig("signed", toLowerCase(signer.address), M)

\* thrown = TRUE: the promise is rejected with the error code `error`;
\* otherwise request is the signed request.  signerInvoked tells whether
\* signer.signMessage was called.  The created, expires and ttlSeconds
\* options are JavaScript numbers, expires and ttlSeconds being <<>> when
\* absent.
signRequest(req, signer, opts) ==
    LET nonce == IF opts.replay = "non-replayable" THEN resolveNonce(opts)
                 ELSE NULL
        key == formatKeyId(signer.chainId, signer.address)
        resolved == resolveComponents(opts.binding, req.hasQuery,
                                      req.hasBody, opts.components)
        covers == Includes(resolved.components, "content-digest")
        adds == ~covers /\ opts.binding = "request-bound" /\ req.hasBody
        components == IF adds
                      THEN Append(resolved.components, "content-digest")
                      ELSE resolved.components
        digested == IF covers \/ adds
                    THEN setContentDigestHeader(req, opts.contentDigest)
                    ELSE [thrown |-> FALSE, request |-> req]
        ttl == IF opts.ttlSeconds = <<>> THEN <<DEFAULT_TTL_SECONDS>>
               ELSE opts.ttlSeconds
        expires == IF opts.expires = <<>> THEN plus(opts.created, ttl)
                   ELSE opts.expires
        params == [created |-> opts.created, expires |-> expires,
                   keyid |-> key.keyid,
                   nonce |-> IF nonce # NULL /\ nonce # "" THEN nonce
                             ELSE NULL]
        value == serializeSignatureParamsInnerList(components, params)
        M == createSignatureBaseMinimal(digested.request, components, value)
        sig == signMessage(signer, M)
        member == parseInnerListWithParams(opts.label, value, sig)
        Thrown(code, invoked) ==
            [thrown |-> TRUE, error |-> code, signerInvoked |-> invoked,
             request |-> req]
    IN  IF key.thrown \/ resolved.thrown
        THEN Thrown("INVALID_OPTIONS", FALSE)
        ELSE IF digested.thrown THEN Thrown("DIGEST_REQUIRED", FALSE)
        ELSE IF assertSignatureParamsForSerialization(params)
        THEN Thrown("INVALID_OPTIONS", FALSE)
        ELSE IF M.thrown THEN Thrown("BAD_HEADER_VALUE", FALSE)
        ELSE IF ~base64Decode(sig) THEN Thrown("UNSUPPORTED_REQUEST", TRUE)
        ELSE [thrown |-> FALSE, error |-> "", signerInvoked |-> TRUE,
              request |->
                  [digested.request EXCEPT
                      !.sigHeaders = "ok",
                      !.members = IF opts.headerMode = "replace"
                                  THEN <<member>>
                                  ELSE Append(req.members, member)]]

\* ------------------------------------------------------ signing inputs
\* Requests before signing: GET, or POST with a body and a Content-Digest
\* header of each kind the caller may have set; without and with a query.
UnsignedRequests ==
    {[BareRequest(shape, "missing") EXCEPT
         !.hasQuery = q, !.query = IF q THEN "?a=1" ELSE ""] :
        shape \in {PlainShape}
                  \cup {[hasBody |-> TRUE, contentDigest |-> d] :
                           d \in {"absent", "empty", "match", "mismatch"}},
        q \in BOOLEAN}

\* An account whose address is written in mixed case; a signer that
\* answers with an empty signature.
Signers ==
    {[chainId |-> <<1>>, address |-> <<"0", "x", "A", "b">>, kind |-> k] :
        k \in {"valid", "empty"}}

DigestModes == {"auto", "recompute", "require", "off"}

\* Sign options, on a clock that reads 10: request-bound with each nonce
\* option, digest mode and expiry; two class-bound calls; and calls whose
\* created, expires and ttlSeconds are integers or not and give a window
\* that is empty or not.
SignOptions ==
    {[label |-> "eth", binding |-> "request-bound", replay |-> r[1],
      headerMode |-> "replace", contentDigest |-> d, created |-> <<10>>,
      expires |-> e, ttlSeconds |-> <<>>, nonce |-> r[2],
      components |-> <<>>] :
        r \in ({"non-replayable"} \X
                  {<<>>, <<"string", "n1">>, <<"string", "">>,
                   <<"function", "n1">>, <<"function", "">>})
              \cup {<<"replayable", <<>> >>},
        d \in DigestModes,
        e \in {<<>>, <<20>>, <<310>>, <<311>>, <<10>>}}
    \cup {[label |-> "eth", binding |-> "class-bound",
           replay |-> "non-replayable", headerMode |-> "append",
           contentDigest |-> "auto", created |-> <<10>>, expires |-> <<>>,
           ttlSeconds |-> <<>>, nonce |-> <<>>, components |-> c] :
             c \in {<<>>, << <<"@method", " ">> >>}}
    \cup {[label |-> "eth", binding |-> "request-bound",
           replay |-> "non-replayable", headerMode |-> "replace",
           contentDigest |-> d, created |-> c, expires |-> e,
           ttlSeconds |-> t, nonce |-> <<"string", "n1">>,
           components |-> <<>>] :
             d \in {"auto", "off"},
             c \in {<<10>>, <<10, 5>>},
             e \in {<<>>, <<9>>, <<20, 5>>},
             t \in {<<0>>, <<0 - 5>>, <<0, 5>>, <<5>>}}

\* The verifier's clock: before, at and after the ends of the windows.
SignClocks == {9, 10, 20, 21, 310}

InitSign ==
    \E req \in UnsignedRequests :
       \/ \E signer \in Signers : \E opts \in SignOptions :
             \E now \in SignClocks :
                StartWith(req, [DefaultPolicy EXCEPT !.now = now],
                          [fn |-> "signRequest",
                           args |-> <<req, signer, opts>>,
                           called |-> FALSE, out |-> NULL])
       \/ \E mode \in DigestModes :
             StartWith(req, DefaultPolicy,
                       [fn |-> "setContentDigestHeader",
                        args |-> <<req, mode>>,
                        called |-> FALSE, out |-> NULL])

\* signRequest(request, signer, opts) settles, before any verification of
\* the request; a signed request replaces the one it was made from.
ApplySignRequest ==
    /\ probe.fn = "signRequest" /\ ~probe.called
    /\ \A p \in Calls : pc[p] = "idle"
    /\ LET out == signRequest(request, probe.args[2], probe.args[3])
       IN  /\ request' = out.request
           /\ probe' = [probe EXCEPT
                           !.called = TRUE,
                           !.out = [status |-> IF out.thrown THEN "thrown"
                                               ELSE "returned",
                                    error |-> out.error,
                                    signerInvoked |-> out.signerInvoked]]
    /\ UNCHANGED <<policy, store, pc, attempts, idx, tried, lastFailure,
                   plan, result, examined, failures, verifyLog, consumeLog,
                   overlapped>>

\* setContentDigestHeader(request, mode) settles.
ApplySetContentDigestHeader ==
    /\ probe.fn = "setContentDigestHeader" /\ ~probe.called
    /\ \A p \in Calls : pc[p] = "idle"
    /\ LET out == setContentDigestHeader(request, probe.args[2])
       IN  /\ request' = out.request
           /\ probe' = [probe EXCEPT !.called = TRUE,
                           !.out = IF out.thrown THEN "thrown"
                                   ELSE "returned"]
    /\ UNCHANGED <<policy, store, pc, attempts, idx, tried, lastFailure,
                   plan, result, examined, failures, verifyLog, consumeLog,
                   overlapped>>

NextSign == ApplySignRequest \/ ApplySetContentDigestHeader \/ NextSolo

SpecSign == InitSign /\ [][NextSign]_vars

\* ------------------------------------------------------ advertisement inputs
\* Class-bound policies: none, one, the same components in two orders, two
\* policies that are the same list once @authority is ensured, a policy
\* equal to the request-bound set of a GET without query, and a policy
\* with a repeated and a blank entry.
AcceptClassBoundPolicies ==
    {<<>>,
     << <<"@authority">> >>,
     << <<"@authority", "@method">>, <<"@method", "@authority">> >>,
     << <<"@authority", "@method">>, <<"@authority", "@method">> >>,
     << <<"@authority", "@method", "@path">>, <<"@authority", "x-api">> >>,
     << <<"@method", "@method", " ">>, <<"@authority", "@method">> >>}

AcceptPolicies ==
    {[DefaultPolicy EXCEPT !.classBoundPolicies = cb, !.replayable = r,
                           !.additionalRequestBoundComponents = x] :
        cb \in AcceptClassBoundPolicies, r \in BOOLEAN,
        x \in {<<>>, <<" x-api ">>}}

\* Requests with one signature, and a request without signature headers;
\* verifyRequest is called with a setHeaders callback.
InitAccept ==
    \E pol \in AcceptPolicies :
       \E req \in {SignedOn(bare, <<sh>>) :
                      bare \in BindingRequests,
                      sh \in {BaseShape,
                              [BaseShape EXCEPT !.components =
                                  Append(RequestBound, "content-digest")],
                              [BaseShape EXCEPT !.nonce = NULL]}}
                  \cup {BareRequest(PlainShape, "missing")} :
          StartWith(req, pol,
                    [fn |-> "setHeaders", args |-> <<>>,
                     called |-> FALSE, out |-> <<>>])

SpecAccept == InitAccept /\ [][NextSolo]_vars

\* ------------------------------------------------------ key id inputs
\* Chain ids as JavaScript numbers: the integers from -1 on and 1.5.
ChainIds == {<<n>> : n \in (0 - 1)..MaxChainId} \cup {<<1, 5>>}

\* Addresses: 0x and AddressDigits characters, "g" not being a hex digit;
\* one digit short, one digit long, and without the 0x prefix.
AddressTexts ==
    {<<"0", "x">> \o d : d \in [1..AddressDigits -> {"a", "B", "7", "g"}]}
    \cup {<<"0", "x", "a">>, <<"0", "x", "a", "a", "a">>, <<"a", "a">>,
          <<"0", "X", "a", "a">>}

\* The parts of a key identifier text: namespace, chain id, separator and
\* address, each as it should be or spoilt.
KeyIdParts ==
    {Namespace, NamespaceEip, SubSeq(Namespace, 1, Len(Namespace) - 1),
     <<"x">> \o Namespace, <<>>}
    \X {<<"1">>, <<"1", "0">>, <<"0", "7">>, <<"-", "1">>, <<"x">>, <<>>,
        <<"1", " ">>}
    \X {<<":">>, <<>>, <<":", ":">>}
    \X (AddressTexts \cup {<<"0", "x", "a", "a", " ">>})

KeyIdText(parts) == parts[1] \o parts[2] \o parts[3] \o parts[4]

\* A direct call of formatKeyId followed by parseKeyId on its result, or of
\* parseKeyId on a text.
InitKeyId ==
    \/ \E c \in ChainIds : \E a \in AddressTexts :
          StartWith(BareRequest(PlainShape, "missing"), DefaultPolicy,
                    [fn |-> "formatKeyId", args |-> <<c, a>>,
                     called |-> FALSE,
                     out |-> [thrown |-> FALSE,
                              parsed |-> parseKeyId(<<>>)]])
    \/ \E parts \in KeyIdParts :
          StartWith(BareRequest(PlainShape, "missing"), DefaultPolicy,
                    [fn |-> "parseKeyId", args |-> <<KeyIdText(parts), parts>>,
                     called |-> FALSE,
                     out |-> [thrown |-> FALSE,
                              parsed |-> parseKeyId(<<>>)]])

\* parseKeyId(formatKeyId(chainId, address)) is evaluated.
ApplyFormatKeyId ==
    /\ probe.fn = "formatKeyId" /\ ~probe.called
    /\ LET keyid == formatKeyId(probe.args[1], probe.args[2])
       IN  probe' = [probe EXCEPT
                        !.called = TRUE,
                        !.out = IF keyid.thrown
                                THEN [thrown |-> TRUE,
                                      parsed |-> parseKeyId(<<>>)]
                                ELSE [thrown |-> FALSE,
                                      parsed |-> parseKeyId(keyid.keyid)]]
    /\ UNCHANGED <<request, policy, store, pc, attempts, idx, tried,
                   lastFailure, plan, result, examined, failures, verifyLog,
                   consumeLog, overlapped>>

\* parseKeyId(text) is evaluated.
ApplyParseKeyId ==
    /\ probe.fn = "parseKeyId" /\ ~probe.called
    /\ probe' = [probe EXCEPT
                    !.called = TRUE,
                    !.out = [thrown |-> FALSE,
                             parsed |-> parseKeyId(probe.args[1])]]
    /\ UNCHANGED <<request, policy, store, pc, attempts, idx, tried,
                   lastFailure, plan, result, examined, failures, verifyLog,
                   consumeLog, overlapped>>

NextKeyId == ApplyFormatKeyId \/ ApplyParseKeyId

SpecKeyId == InitKeyId /\ [][NextKeyId]_vars

\* ------------------------------------------------------ header inputs
\* The header pair in each of its kinds, over requests whose Signature-Input
\* members are those of the label specification (none when Signature-Input
\* itself does not parse or is missing).
HeaderRequests ==
    {BareRequest(shape, h) :
        shape \in {PlainShape, [hasBody |-> TRUE, contentDigest |-> "match"]},
        h \in {"missing", "malformed"}}
    \cup UNION {{SignedOn(BareRequest(shape, h), shs) :
                    shape \in {PlainShape,
                               [hasBody |-> TRUE, contentDigest |-> "match"]},
                    h \in {"ok", "malformed_signature"},
                    shs \in [1..n -> LabelShapes]} : n \in 1..MaxMembers}

InitHeaders ==
    \E req \in HeaderRequests :
       \E pol \in {DefaultPolicy, [DefaultPolicy EXCEPT !.replayable = TRUE]} :
          Start(req, pol)

SpecHeaders == InitHeaders /\ [][NextSolo]_vars

\* ------------------------------------------------------ vocabulary of the claims
Done(p) == pc[p] = "done"

HasNonce(m) == m.nonce # NULL /\ m.nonce # ""

\* The components the shape of the request and the policy make mandatory.
MandatorySet ==
    {"@authority", "@method", "@path"}
    \cup (IF request.hasQuery THEN {"@query"} ELSE {})
    \cup (IF request.hasBody THEN {"content-digest"} ELSE {})
    \cup ({trim(c) : c \in Range(policy.additionalRequestBoundComponents)}
             \ {""})

RequestBoundShaped(m) == MandatorySet \subseteq Range(m.components)

MatchesSomePolicy(m) ==
    \E i \in 1..Len(policy.classBoundPolicies) :
        (({trim(c) : c \in Range(policy.classBoundPolicies[i])} \ {""})
            \cup {"@authority"})
            \subseteq Range(m.components)

InWindow(m) ==
    /\ m.expires > m.created
    /\ policy.now + policy.clockSkewSec >= m.created
    /\ policy.now - policy.clockSkewSec <= m.expires
    /\ m.expires - m.created <=
          (IF Len(policy.maxValiditySec) = 1 THEN policy.maxValiditySec[1]
           ELSE 300)

NoncePolicyOk(m) ==
    IF HasNonce(m)
    THEN /\ policy.hasNonceStore
         /\ (policy.maxNonceWindowSec # <<>> =>
                m.expires - m.created <= policy.maxNonceWindowSec[1])
    ELSE policy.replayable

DigestOk(m) ==
    "content-digest" \in Range(m.components) => request.contentDigest = "match"

\* The bytes the verifier must be given for member m.
BaseOf(m) ==
    createSignatureBaseMinimal(request, m.components, signatureParamsValue(m))

\* m carries the signature of the key its keyid names over its own base.
WellSigned(m) ==
    /\ parseKeyId(m.keyid).ok
    /\ ~BaseOf(m).thrown
    /\ m.sig.kind = "signed"
    /\ m.sig.by = parseKeyId(m.keyid).address
    /\ m.sig.msg = BaseOf(m)

\* m passes every check of an attempt short of nonce consumption.
Admissible(m) ==
    /\ WellSigned(m)
    /\ RequestBoundShaped(m) \/ MatchesSomePolicy(m)
    /\ InWindow(m)
    /\ NoncePolicyOk(m)
    /\ DigestOk(m)

\* The attempt cap the policy asks for.
Cap ==
    IF policy.maxSignatureVerifications # <<>>
       /\ policy.maxSignatureVerifications[1] > 0
    THEN policy.maxSignatureVerifications[1]
    ELSE 3

\* Positions of the candidates that survive selection and the keyid check.
ValidCandidates ==
    {i \in 1..Len(request.members) :
        /\ request.members[i].sig.kind # "none"
        /\ policy.label # NULL /\ policy.strictLabel
              => request.members[i].label = policy.label
        /\ parseKeyId(request.members[i].keyid).ok}

\* There are keyid-valid candidates and none of them yields an attempt.
NoAttemptCase ==
    /\ request.sigHeaders = "ok"
    /\ ValidCandidates # {}
    /\ \A i \in ValidCandidates :
          /\ ~RequestBoundShaped(request.members[i])
          /\ ~MatchesSomePolicy(request.members[i])

\* ------------------------------------------------------ claims

\* C1: verifyRequest returns ok:true only for a candidate whose keyid
\* parsed, that is request-bound or matches a configured class-bound
\* policy, that passed the time check, the nonce policy and (when it covers
\* content-digest) the digest check, for which this call's verify function
\* returned true on the base built from its components and raw parameters,
\* and (when it has a nonce) for which this call's consume returned true;
\* the returned address, chainId, label, components and params are its own.
C1_OkOnlyForCheckedCandidate ==
    \A p \in Calls : (Done(p) /\ result[p].ok) =>
        /\ result[p].member \in 1..Len(request.members)
        /\ LET m == request.members[result[p].member]
               key == parseKeyId(m.keyid)
           IN  /\ key.ok
               /\ RequestBoundShaped(m) \/ MatchesSomePolicy(m)
               /\ InWindow(m)
               /\ NoncePolicyOk(m)
               /\ DigestOk(m)
               /\ \E j \in 1..Len(verifyLog[p]) :
                     /\ verifyLog[p][j].member = result[p].member
                     /\ verifyLog[p][j].outcome = "true"
                     /\ verifyLog[p][j].address = key.address
                     /\ verifyLog[p][j].message = BaseOf(m)
                     /\ verifyLog[p][j].signature = m.sig
               /\ HasNonce(m) =>
                     \E j \in 1..Len(consumeLog[p]) :
                        /\ consumeLog[p][j].member = result[p].member
                        /\ consumeLog[p][j].key = <<m.keyid, m.nonce>>
                        /\ consumeLog[p][j].consumed
               /\ result[p].address = key.address
               /\ result[p].chainId = key.chainId
               /\ result[p].label = m.label
               /\ result[p].components = m.components
               /\ result[p].params = Params(m)

\* A call succeeded on the second member, after the first one failed, and
\* consumed that member's nonce.
C1_Witness ==
    \E p \in Calls :
        /\ Done(p) /\ result[p].ok /\ result[p].member = 2
        /\ failures[p] # <<>>
        /\ consumeLog[p] # <<>>

\* C2: verification outcomes are never thrown: whatever components the
\* candidates declare and whether or not the covered header fields exist on
\* the request, verifyRequest returns a tagged result and no exception
\* reaches the caller.
C2_NeverThrown == \A p \in Calls : pc[p] # "thrown"

\* C3: two verifyRequest calls that overlap in time on a request carrying
\* one nonce-bearing signature, with one atomic nonce store and a verify
\* function that returned true in both: exactly one call returns ok:true
\* and the other returns {ok:false, reason:"replay"}.
C3_ConcurrentSameNonce ==
    ( /\ Len(request.members) = 1
      /\ HasNonce(request.members[1])
      /\ overlapped
      /\ \A p \in Calls :
            /\ Done(p)
            /\ verifyLog[p] # <<>>
            /\ verifyLog[p][Len(verifyLog[p])].outcome = "true" )
    => \E p, q \in Calls :
          /\ p # q
          /\ result[p].ok
          /\ result[q] = Failure("replay")

\* The second call started while the first was awaiting a collaborator;
\* one of them ended with ok:true, the other with replay.
C3_Witness ==
    /\ Len(request.members) = 1
    /\ overlapped
    /\ \A p \in Calls : Done(p) /\ Len(verifyLog[p]) = 1
    /\ \E p, q \in Calls : result[p].ok /\ result[q] = Failure("replay")

\* C4: a request carrying one non-replayable signature that passes every
\* check, a fresh nonce store, two verifyRequest calls one after the other
\* with the same policy and clock: the first returns ok:true and the second
\* returns exactly {ok:false, reason:"replay"}.
C4_ReplayOnSecondCall ==
    ( /\ Len(request.members) = 1
      /\ HasNonce(request.members[1])
      /\ Admissible(request.members[1])
      /\ ~overlapped
      /\ \A p \in Calls : Done(p) )
    => /\ result[1].ok
       /\ result[2] = Failure("replay")

\* Two successive calls on a single admissible nonce-bearing signature have
\* both returned.
C4_Witness ==
    /\ Len(request.members) = 1
    /\ HasNonce(request.members[1])
    /\ Admissible(request.members[1])
    /\ ~overlapped
    /\ \A p \in Calls : Done(p)
    /\ store = {<<request.members[1].keyid, request.members[1].nonce>>}

\* C5: consume is called only after the verify function returned true for
\* the same attempt, an attempt that passed the time, nonce-policy and
\* digest checks; so every key in the nonce store belongs to a signature
\* that verified.
C5_ConsumeOnlyAfterVerified ==
    /\ \A p \in Calls :
          /\ \A j \in 1..Len(consumeLog[p]) :
                /\ \E k \in 1..Len(verifyLog[p]) :
                      /\ verifyLog[p][k].member = consumeLog[p][j].member
                      /\ verifyLog[p][k].outcome = "true"
                /\ InWindow(request.members[consumeLog[p][j].member])
                /\ HasNonce(request.members[consumeLog[p][j].member])
                /\ DigestOk(request.members[consumeLog[p][j].member])
          /\ pc[p] = "consume" =>
                /\ verifyLog[p] # <<>>
                /\ verifyLog[p][Len(verifyLog[p])].outcome = "true"
                /\ verifyLog[p][Len(verifyLog[p])].member =
                      attempts[p][idx[p]].candidate
    /\ \A key \in store :
          \E p \in Calls : \E k \in 1..Len(verifyLog[p]) :
             /\ verifyLog[p][k].outcome = "true"
             /\ key = <<request.members[verifyLog[p][k].member].keyid,
                        request.members[verifyLog[p][k].member].nonce>>

\* A call whose first attempt failed at the verify function without any
\* consume went on to consume the nonce of a later attempt.
C5_Witness ==
    \E p \in Calls :
        /\ Len(verifyLog[p]) = 2
        /\ verifyLog[p][1].outcome \in {"false", "raise"}
        /\ Len(consumeLog[p]) = 1
        /\ consumeLog[p][1].member = verifyLog[p][2].member

\* C6 (as stated): every request-bound attempt is tried before any
\* class-bound attempt, and among class-bound attempts one with a shorter
\* shortest matching policy is tried first.
C6_PolicyAwareOrder ==
    \A p \in Calls : \A k \in 1..Len(examined[p]) :
        LET a == attempts[p][examined[p][k]]
            EarlierTried(j) == \E h \in 1..(k - 1) : examined[p][h] = j
        IN  a.kind = "class-bound" =>
               \A j \in 1..Len(attempts[p]) :
                  ( \/ attempts[p][j].kind = "request-bound"
                    \/ attempts[p][j].policyLength < a.policyLength )
                  => EarlierTried(j)

\* C6 (amended): attempts are examined in their original Signature-Input
\* order, whatever their binding kind and the length of the policy they
\* match: the k-th attempt examined is the k-th eligible candidate of the
\* header.
C6_HeaderOrder ==
    \A p \in Calls :
        /\ \A k \in 1..Len(examined[p]) : examined[p][k] = k
        /\ \A i, j \in 1..Len(attempts[p]) :
              i < j => attempts[p][i].candidate < attempts[p][j].candidate

\* A call examined a class-bound attempt and then a request-bound one.
C6_Witness ==
    \E p \in Calls :
        /\ Len(examined[p]) >= 2
        /\ attempts[p][examined[p][1]].kind = "class-bound"
        /\ attempts[p][examined[p][2]].kind = "request-bound"

\* C7: when an admissible class-bound signature precedes an admissible
\* request-bound signature in the headers, a class-bound policy matching
\* the first is configured, and its nonce has not been taken by another
\* call, verifyRequest succeeds with the class-bound signature: its label,
\* binding class-bound.
C7_HeaderOrderAcrossBindings ==
    \A p \in Calls :
        ( /\ Done(p)
          /\ Len(request.members) >= 2
          /\ ~RequestBoundShaped(request.members[1])
          /\ MatchesSomePolicy(request.members[1])
          /\ Admissible(request.members[1])
          /\ \E j \in 2..Len(request.members) :
                /\ RequestBoundShaped(request.members[j])
                /\ Admissible(request.members[j])
          /\ \A q \in Calls \ {p} : \A j \in 1..Len(consumeLog[q]) :
                ~(consumeLog[q][j].member = 1 /\ consumeLog[q][j].consumed) )
        => /\ result[p].ok
           /\ result[p].member = 1
           /\ result[p].label = request.members[1].label
           /\ result[p].binding = "class-bound"

\* A call returned the class-bound first member although an admissible
\* request-bound member follows it.
C7_Witness ==
    \E p \in Calls :
        /\ Done(p) /\ result[p].ok
        /\ result[p].member = 1 /\ result[p].binding = "class-bound"
        /\ Len(request.members) >= 2
        /\ RequestBoundShaped(request.members[2])
        /\ Admissible(request.members[2])

\* C8: a call examines at most maxSignatureVerifications attempts (default
\* 3) and calls the verify function at most that many times; an attempt
\* positioned after the cap is never examined, so with a cap of 1 a request
\* whose first attempt has a bad signature and whose second is admissible
\* returns bad_signature.
C8_AttemptCap ==
    \A p \in Calls :
        /\ Len(examined[p]) <= Cap
        /\ Len(verifyLog[p]) <= Cap
        /\ \A k \in 1..Len(examined[p]) : examined[p][k] <= Cap
        /\ ( /\ Done(p)
             /\ Cap = 1
             /\ Len(attempts[p]) >= 2
             /\ LET first == request.members[attempts[p][1].candidate]
                IN  /\ first.sig.kind = "signed"
                    /\ ~WellSigned(first)
                    /\ Admissible([first EXCEPT !.sig =
                           Sig("signed", parseKeyId(first.keyid).address,
                               BaseOf(first))])
             /\ Admissible(request.members[attempts[p][2].candidate]) )
           => result[p] = Failure("bad_signature")

\* Under the default cap a call with four attempts, the fourth admissible,
\* returned a failure after examining three.
C8_Witness ==
    \E p \in Calls :
        /\ Done(p)
        /\ policy.maxSignatureVerifications = <<>>
        /\ Len(attempts[p]) = 4
        /\ Admissible(request.members[attempts[p][4].candidate])
        /\ Len(examined[p]) = 3
        /\ ~result[p].ok

\* C9: when no examined attempt succeeds, verifyRequest returns the failure
\* recorded by the last attempt examined, whatever earlier attempts
\* recorded.
C9_LastFailureReturned ==
    \A p \in Calls :
        (Done(p) /\ ~result[p].ok /\ examined[p] # <<>>) =>
            /\ Len(failures[p]) = Len(examined[p])
            /\ result[p] = Failure(failures[p][Len(failures[p])])

\* Attempts failing with replay and then bad_signature yield bad_signature.
C9_Witness ==
    \E p \in Calls :
        /\ Done(p)
        /\ failures[p] = <<"replay", "bad_signature">>
        /\ result[p] = Failure("bad_signature")

\* C10 (as stated): when no keyid-valid candidate produces an attempt, the
\* result is class_bound_not_allowed if some candidate was class-bound-shaped
\* and no configured policy matched it, and not_request_bound otherwise.
C10_UnmatchedShapeReason ==
    \A p \in Calls : (Done(p) /\ NoAttemptCase) =>
        result[p] =
           Failure(IF \E i \in ValidCandidates :
                         /\ ~RequestBoundShaped(request.members[i])
                         /\ ~MatchesSomePolicy(request.members[i])
                   THEN "class_bound_not_allowed"
                   ELSE "not_request_bound")

\* C10 (amended): when no keyid-valid candidate produces an attempt, the
\* result is class_bound_not_allowed if at least one class-bound policy is
\* configured and not_request_bound if none is; in neither case is the
\* verify function or the nonce store called.
C10_ConfiguredPolicyReason ==
    \A p \in Calls : (Done(p) /\ NoAttemptCase) =>
        /\ result[p] =
              Failure(IF Len(policy.classBoundPolicies) > 0
                      THEN "class_bound_not_allowed"
                      ELSE "not_request_bound")
        /\ verifyLog[p] = <<>>
        /\ consumeLog[p] = <<>>
        /\ examined[p] = <<>>

\* With no class-bound policy configured, a request whose only candidates
\* are class-bound-shaped got not_request_bound.
C10_Witness ==
    \E p \in Calls :
        /\ Done(p) /\ NoAttemptCase
        /\ Len(policy.classBoundPolicies) = 0
        /\ result[p] = Failure("not_request_bound")

\* ------------------------------------------------------ binding claims
\* The attempts of call p made from the candidate at position i.
AttemptsOf(p, i) ==
    {k \in 1..Len(attempts[p]) : attempts[p][k].candidate = i}

\* How call p classified the candidate at position i.
Classification(p, i) ==
    IF AttemptsOf(p, i) = {} THEN <<"excluded", 0>>
    ELSE LET a == attempts[p][CHOOSE k \in AttemptsOf(p, i) : TRUE]
         IN  <<a.kind, a.policyLength>>

\* The required components in the order the library lists them.
RequiredList ==
    requiredRequestBoundComponents(request.hasQuery, request.hasBody,
        normalizeComponentsList(policy.additionalRequestBoundComponents))

\* C11: with no class-bound policy configured, a candidate is eligible
\* only if its components include @authority, @method and @path, @query
\* when the URL has a query string, content-digest when the request has a
\* body, and every (trimmed, non-blank) additionalRequestBoundComponents
\* entry; if no keyid-valid candidate is eligible the result is
\* not_request_bound and the verify function is not called; and when a
\* candidate that has every such component passes the other checks (the
\* request carrying no more candidates than the attempt cap), verification
\* succeeds with a request-bound candidate.
C11_RequestBoundEligibility ==
    \A p \in Calls :
        ( /\ Done(p)
          /\ Len(policy.classBoundPolicies) = 0
          /\ request.sigHeaders = "ok"
          /\ ValidCandidates # {} )
        => /\ \A k \in 1..Len(attempts[p]) :
                 /\ attempts[p][k].kind = "request-bound"
                 /\ RequestBoundShaped(
                        request.members[attempts[p][k].candidate])
           /\ (\A i \in ValidCandidates :
                  ~RequestBoundShaped(request.members[i]))
                 => /\ result[p] = Failure("not_request_bound")
                    /\ verifyLog[p] = <<>>
           /\ ( /\ Len(request.members) <= Cap
                /\ \E i \in ValidCandidates :
                      /\ RequestBoundShaped(request.members[i])
                      /\ Admissible(request.members[i]) )
                 => /\ result[p].ok
                    /\ result[p].binding = "request-bound"
                    /\ RequestBoundShaped(request.members[result[p].member])

\* On a GET with a query string the first candidate covers @authority,
\* @method and @path, the second covers @query as well: the second won.
C11_Witness ==
    \E p \in Calls :
        /\ Done(p)
        /\ request.hasQuery /\ ~request.hasBody
        /\ Len(policy.classBoundPolicies) = 0
        /\ request.members[1].components = RequestBound
        /\ request.members[2].components = Append(RequestBound, "@query")
        /\ Len(attempts[p]) = 1
        /\ result[p].ok /\ result[p].member = 2

ExaminedMember(p, k) ==
    request.members[attempts[p][examined[p][k]].candidate]

\* Call p gave the member at position i to the verify function.
Verified(p, i) == \E j \in 1..Len(verifyLog[p]) : verifyLog[p][j].member = i

\* Call p asked the nonce store to consume the nonce of the member at i.
Consumed(p, i) ==
    \E j \in 1..Len(consumeLog[p]) : consumeLog[p][j].member = i

\* C14: an attempt whose candidate has no nonce, or an empty one, and that
\* passes the time check fails with replayable_not_allowed when
\* policy.replayable is false, and the verify function is not called for
\* it; when policy.replayable is true and the candidate passes every other
\* check, verification succeeds with replayable:true and consume is never
\* called for that candidate.
C14_ReplayableGating ==
    \A p \in Calls :
        /\ \A k \in 1..Len(examined[p]) :
              LET m == ExaminedMember(p, k)
                  i == attempts[p][examined[p][k]].candidate
              IN  ~HasNonce(m) =>
                     /\ ~Consumed(p, i)
                     /\ (~policy.replayable /\ InWindow(m)) =>
                           /\ k <= Len(failures[p])
                           /\ failures[p][k] = "replayable_not_allowed"
                           /\ ~Verified(p, i)
        /\ ( /\ Done(p)
             /\ attempts[p] # <<>>
             /\ ~HasNonce(request.members[attempts[p][1].candidate])
             /\ Admissible(request.members[attempts[p][1].candidate]) )
           => /\ policy.replayable
              /\ result[p].ok
              /\ result[p].member = attempts[p][1].candidate
              /\ result[p].replayable
              /\ consumeLog[p] = <<>>

\* Under replayable:true a call succeeded with a candidate whose nonce is
\* the empty string, and never touched the nonce store.
C14_Witness ==
    \E p \in Calls :
        /\ Done(p) /\ policy.replayable
        /\ result[p].ok /\ result[p].replayable
        /\ request.members[result[p].member].nonce = ""
        /\ Len(verifyLog[p]) = 1
        /\ consumeLog[p] = <<>>

\* The attempts call p examined whose candidate covers content-digest and
\* passes the time and nonce-policy checks.
DigestAttempts(p) ==
    {k \in 1..Len(examined[p]) :
        /\ "content-digest" \in Range(ExaminedMember(p, k).components)
        /\ InWindow(ExaminedMember(p, k))
        /\ NoncePolicyOk(ExaminedMember(p, k))}

\* The k-th attempt examined by call p ended with the given failure, or
\* (awaiting) is still waiting for verifyContentDigest.
FailsWith(p, k, reason, awaiting) ==
    IF k <= Len(failures[p]) THEN failures[p][k] = reason
    ELSE awaiting /\ pc[p] = "digest" /\ k = Len(examined[p])

\* C16 (as stated): for a candidate that covers content-digest and passes
\* the time and nonce-policy checks, the attempt fails with digest_required
\* if the request has no Content-Digest header and with digest_mismatch if
\* the header is present but is not the SHA-256 digest of the body; in both
\* cases the verify function is not called and no nonce is consumed.
C16_DigestReasons ==
    \A p \in Calls : \A k \in DigestAttempts(p) :
        /\ request.contentDigest = "absent" =>
              FailsWith(p, k, "digest_required", FALSE)
        /\ request.contentDigest \notin {"absent", "match"} =>
              FailsWith(p, k, "digest_mismatch", TRUE)
        /\ request.contentDigest # "match" =>
              /\ ~Verified(p, attempts[p][examined[p][k]].candidate)
              /\ ~Consumed(p, attempts[p][examined[p][k]].candidate)

\* C16 (amended): for such a candidate the attempt fails with
\* digest_required if the request has no Content-Digest header or one
\* whose value is empty, and with digest_mismatch if the header has a value
\* that is not the SHA-256 digest of the request's current body (a changed
\* body, a malformed value, another algorithm); in both cases the verify
\* function is not called and no nonce is consumed.
C16_DigestReasonsNonEmpty ==
    \A p \in Calls : \A k \in DigestAttempts(p) :
        /\ request.contentDigest \in {"absent", "empty"} =>
              FailsWith(p, k, "digest_required", FALSE)
        /\ request.contentDigest \in {"mismatch", "malformed", "sha-512"} =>
              FailsWith(p, k, "digest_mismatch", TRUE)
        /\ request.contentDigest # "match" =>
              /\ ~Verified(p, attempts[p][examined[p][k]].candidate)
              /\ ~Consumed(p, attempts[p][examined[p][k]].candidate)

\* The body changed after signing: the only candidate, well signed over
\* the Content-Digest header it travels with, failed with digest_mismatch
\* and the verify function was never called.
C16_Witness ==
    \E p \in Calls :
        /\ Done(p)
        /\ request.contentDigest = "mismatch"
        /\ Len(request.members) = 1
        /\ WellSigned(request.members[1])
        /\ DigestAttempts(p) = {1}
        /\ result[p] = Failure("digest_mismatch")
        /\ verifyLog[p] = <<>> /\ store = {}

\* The outcomes of the verify function for the k-th attempt examined by
\* call p (none when the attempt did not reach the cryptographic check).
OutcomesOf(p, k) ==
    {verifyLog[p][j].outcome :
        j \in {h \in 1..Len(verifyLog[p]) :
                 verifyLog[p][h].member =
                    attempts[p][examined[p][k]].candidate}}

SelectedCandidates ==
    {i \in 1..Len(request.members) :
        /\ request.members[i].sig.kind # "none"
        /\ policy.label # NULL /\ policy.strictLabel
              => request.members[i].label = policy.label}

\* The key identifiers of the form erc8128:<chain id>:<address>.
WellFormedKeyId(keyid) == keyid \in {KeyA, KeyB}

\* C20: a candidate whose keyid does not match the key-identifier format
\* is discarded before classification: it yields no attempt and is never
\* passed to the verify function; if every selected candidate has a
\* malformed keyid the result is bad_keyid; and a request carrying one
\* malformed-keyid candidate and one candidate that passes every check
\* verifies successfully through the latter.
C20_MalformedKeyIdDiscarded ==
    \A p \in Calls :
        /\ \A i \in 1..Len(request.members) :
              ~WellFormedKeyId(request.members[i].keyid) =>
                 /\ AttemptsOf(p, i) = {}
                 /\ ~Verified(p, i)
        /\ ( /\ Done(p)
             /\ request.sigHeaders = "ok"
             /\ SelectedCandidates # {}
             /\ \A i \in SelectedCandidates :
                   ~WellFormedKeyId(request.members[i].keyid) )
           => result[p] = Failure("bad_keyid")
        /\ ( /\ Done(p)
             /\ Len(request.members) = 2
             /\ \E i, j \in SelectedCandidates :
                   /\ ~WellFormedKeyId(request.members[i].keyid)
                   /\ Admissible(request.members[j]) )
           => /\ result[p].ok
              /\ WellFormedKeyId(request.members[result[p].member].keyid)
              /\ Admissible(request.members[result[p].member])

\* The first candidate has a malformed keyid; the call made one attempt
\* and succeeded with the second.
C20_Witness ==
    \E p \in Calls :
        /\ Done(p)
        /\ Len(request.members) = 2
        /\ request.members[1].keyid = KeyMalformed
        /\ Len(attempts[p]) = 1
        /\ Len(verifyLog[p]) = 1
        /\ result[p].ok /\ result[p].member = 2

\* ------------------------------------------------------ time claims
\* What the time check is to answer for integers created and expires.
ExpectedTimeFailure(now, skew, maxValiditySec, created, expires) ==
    LET limit == IF maxValiditySec = <<>> THEN 300 ELSE maxValiditySec[1]
    IN  CASE expires <= created -> "bad_time"
          [] expires > created /\ now + skew < created -> "not_yet_valid"
          [] expires > created /\ now + skew >= created
                /\ now - skew > expires -> "expired"
          [] expires > created /\ now + skew >= created
                /\ now - skew <= expires
                /\ expires - created > limit -> "validity_too_long"
          [] OTHER -> NULL

\* C15: for a single candidate with integer created < expires and
\* clockSkewSec = 0, verification at now = created - 1 returns
\* not_yet_valid and at now = expires + 1 returns expired, and at every now
\* in [created, expires] with expires - created <= maxValiditySec (default
\* 300) the time check passes; in general the time check yields bad_time
\* if expires <= created or either is not an integer, else not_yet_valid
\* iff now + skew < created, else expired iff now - skew > expires, else
\* validity_too_long iff expires - created > maxValiditySec.
C15_TimeChecks ==
    /\ \A p \in Calls :
          (Done(p) /\ Len(request.members) = 1 /\ attempts[p] # <<>>) =>
             LET m == request.members[1]
                 expected == ExpectedTimeFailure(policy.now,
                                 policy.clockSkewSec, policy.maxValiditySec,
                                 m.created, m.expires)
                 limit == IF policy.maxValiditySec = <<>> THEN 300
                          ELSE policy.maxValiditySec[1]
             IN  /\ expected # NULL => result[p] = Failure(expected)
                 /\ expected = NULL =>
                       /\ failures[p] = <<>>
                       /\ Admissible(m) => result[p].ok
                 /\ (policy.clockSkewSec = 0 /\ m.created < m.expires) =>
                       /\ policy.now = m.created - 1 =>
                             result[p] = Failure("not_yet_valid")
                       /\ policy.now = m.expires + 1 =>
                             result[p] = Failure("expired")
                       /\ ( /\ policy.now >= m.created
                            /\ policy.now <= m.expires
                            /\ m.expires - m.created <= limit )
                          => result[p].ok
    /\ (probe.fn = "runTimeChecks" /\ probe.called) =>
          probe.out =
             IF Len(probe.args[4]) # 1 \/ Len(probe.args[5]) # 1
             THEN "bad_time"
             ELSE ExpectedTimeFailure(probe.args[1], probe.args[2],
                      probe.args[3], probe.args[4][1], probe.args[5][1])

\* With no clock skew, one second after the candidate expired,
\* verification returned expired without calling the verify function.
C15_Witness ==
    \E p \in Calls :
        /\ Done(p)
        /\ Len(request.members) = 1
        /\ policy.clockSkewSec = 0
        /\ request.members[1].created < request.members[1].expires
        /\ policy.now = request.members[1].expires + 1
        /\ result[p] = Failure("expired")
        /\ verifyLog[p] = <<>>

\* ------------------------------------------------------ label claims
\* Positions of the members that carry the policy's label and have a
\* Signature entry with that label.
LabelledCandidates ==
    {i \in 1..Len(request.members) :
        /\ request.members[i].label = policy.label
        /\ request.members[i].sig.kind # "none"}

\* C18: with policy.label = L and strictLabel = true, if no
\* Signature-Input member labelled L has a Signature entry with the same
\* label, verifyRequest returns label_not_found even when other labels
\* carry valid signatures; otherwise only candidates labelled L are
\* attempted, so any ok:true result has label L.
C18_StrictLabel ==
    \A p \in Calls :
        ( /\ policy.label # NULL /\ policy.strictLabel
          /\ request.sigHeaders = "ok" )
        => /\ (Done(p) /\ LabelledCandidates = {}) =>
                 /\ result[p] = Failure("label_not_found")
                 /\ verifyLog[p] = <<>>
           /\ \A k \in 1..Len(attempts[p]) :
                 attempts[p][k].candidate \in LabelledCandidates
           /\ \A j \in 1..Len(verifyLog[p]) :
                 verifyLog[p][j].member \in LabelledCandidates
           /\ (Done(p) /\ result[p].ok) => result[p].label = policy.label

\* The first member is labelled otherwise and passes every check, the one
\* carrying the strict label has no Signature entry: label_not_found.
C18_Witness ==
    \E p \in Calls :
        /\ Done(p)
        /\ policy.strictLabel /\ policy.label = Labels[2]
        /\ Len(request.members) = 2
        /\ Admissible(request.members[1])
        /\ request.members[2].sig.kind = "none"
        /\ result[p] = Failure("label_not_found")

C21_MalformedHeaders ==
    \A p \in Calls :
        ( /\ request.sigHeaders \in {"malformed", "malformed_signature"}
          /\ pc[p] # "idle" )
        => /\ Done(p)
           /\ result[p] = Failure("bad_signature_input")
           /\ verifyLog[p] = <<>>
           /\ consumeLog[p] = <<>>
           /\ store = {}

\* Signature-Input holds a member that would pass every check, the
\* Signature value does not parse, and the call has returned.
C21_Witness ==
    \E p \in Calls :
        /\ Done(p)
        /\ request.sigHeaders = "malformed_signature"
        /\ Admissible(request.members[1])
        /\ result[p] = Failure("bad_signature_input")

\* ------------------------------------------------------ signing claims
\* A signRequest call has returned a signed request.
Signed ==
    probe.fn = "signRequest" /\ probe.called /\ probe.out.status = "returned"

\* The request, the signer and the options signRequest was called with.
SignInput == probe.args[1]
SignSigner == probe.args[2]
SignOpts == probe.args[3]

\* The Signature-Input member signRequest wrote.
SignedMember == request.members[Len(request.members)]

C23_NonceAlwaysEmitted ==
    (Signed /\ SignOpts.replay = "non-replayable") => HasNonce(SignedMember)

\* C24: setContentDigestHeader obeys its mode: auto computes and sets the
\* header only if it is absent and otherwise returns the request
\* unchanged; recompute always overwrites the header with the digest of
\* the body; require fails if the header is absent and never computes a
\* digest or changes an existing header; off always fails.  (A header
\* without a value counts as absent.)
C24_DigestModes ==
    (probe.fn = "setContentDigestHeader" /\ probe.called) =>
        LET before == probe.args[1]
            mode == probe.args[2]
            absent == before.contentDigest \in {"absent", "empty"}
        IN  CASE mode = "auto" ->
                   /\ probe.out = "returned"
                   /\ IF absent THEN request.contentDigest = "match"
                      ELSE request = before
              [] mode = "recompute" ->
                   /\ probe.out = "returned"
                   /\ request.contentDigest = "match"
              [] mode = "require" ->
                   IF absent THEN probe.out = "thrown"
                   ELSE probe.out = "returned" /\ request = before
              [] OTHER -> probe.out = "thrown"

\* ------------------------------------------------------ advertisement
\* C25: when a setHeaders callback is supplied, the Accept-Signature value
\* lists the request-bound required component set first and then each
\* configured class-bound policy, with exactly one entry per distinct
\* component set (two policies naming the same set of components produce a
\* single entry), labelled sig1, sig2, ... consecutively.
C25_AcceptSignatureEntries ==
    (probe.fn = "setHeaders" /\ probe.called) =>
        LET entries == probe.out
            Sets == {MandatorySet}
                    \cup {({trim(c) : c \in Range(policy.classBoundPolicies[i])}
                              \ {""}) \cup {"@authority"} :
                             i \in 1..Len(policy.classBoundPolicies)}
        IN  /\ Len(entries) >= 1
            /\ Range(entries[1].value.components) = MandatorySet
            /\ {Range(entries[k].value.components) : k \in 1..Len(entries)}
                  = Sets
            /\ Len(entries) = Cardinality(Sets)
            /\ \A k \in 1..Len(entries) : entries[k].label = Labels[k]

\* ------------------------------------------------------ key identifiers
\* 0x followed by AddressDigits hex digits.
ValidAddress(a) ==
    /\ Len(a) = 2 + AddressDigits
    /\ a[1] = "0" /\ a[2] = "x"
    /\ \A i \in 3..Len(a) : a[i] \in {"a", "B", "7"}

\* The parts are those of a key identifier text: the erc8128 namespace,
\* decimal digits, one colon, an address.
WellFormedParts(parts) ==
    /\ parts[1] = Namespace
    /\ parts[2] \in {<<"1">>, <<"1", "0">>, <<"0", "7">>}
    /\ parts[3] = <<":">>
    /\ ValidAddress(parts[4])

\* C26: key identifier round trip: for all valid (chainId, address),
\* parseKeyId(formatKeyId(chainId, address)) equals {chainId, address
\* lowercased}; parseKeyId returns null, and never throws, for any string
\* that does not match the key-identifier format.
C26_KeyIdRoundTrip ==
    /\ ( /\ probe.fn = "formatKeyId" /\ probe.called
         /\ Len(probe.args[1]) = 1 /\ probe.args[1][1] >= 1
         /\ ValidAddress(probe.args[2]) )
       => /\ ~probe.out.thrown
          /\ probe.out.parsed.ok
          /\ probe.out.parsed.chainId = probe.args[1][1]
          /\ probe.out.parsed.address = toLowerCase(probe.args[2])
    /\ (probe.fn = "parseKeyId" /\ probe.called) =>
          /\ ~probe.out.thrown
          /\ probe.out.parsed.ok = WellFormedParts(probe.args[2])

\* A two-digit chain id and an address with an upper-case digit made the
\* round trip.
C26_Witness ==
    /\ probe.fn = "formatKeyId" /\ probe.called
    /\ probe.args[1] = <<MaxChainId>>
    /\ probe.args[2] = <<"0", "x", "a", "B">>
    /\ probe.out.parsed.ok
    /\ probe.out.parsed.chainId = MaxChainId
    /\ probe.out.parsed.address = <<"0", "x", "a", "b">>


\* ------------------------------------------------------ replay protection
\* The calls that have returned ok:true.
Accepted == {p \in Calls : Done(p) /\ result[p].ok}

\* C27: a given signed request is accepted at most once: for any fixed
\* request, however many signature labels it carries, and a nonce store
\* whose consume checks and sets atomically, when replayable signatures
\* are not allowed at most one call of a sequence of verifyRequest calls
\* on that request returns ok:true.
C27_AcceptedAtMostOnce ==
    ~policy.replayable => Cardinality(Accepted) <= 1

\* The positions in the consume log of call p at which the store reserved
\* the key.
ReservedBy(p) ==
    {j \in 1..Len(consumeLog[p]) : consumeLog[p][j].consumed}

\* C28: whenever verifyRequest accepts a nonce-bearing signature at time
\* now, the TTL it passes to consume lasts at least until the last instant
\* at which the same signature still passes the time check under the same
\* policy (now - clockSkewSec <= expires), so that a store forgetting a key
\* once its TTL has elapsed cannot let the signature in a second time.
C28_TtlCoversAcceptance ==
    \A p \in Accepted :
        LET m == request.members[result[p].member]
        IN  HasNonce(m) =>
               \A j \in ReservedBy(p) :
                   policy.now + consumeLog[p][j].ttl
                      >= m.expires + policy.clockSkewSec

\* C29: a verifyRequest call that returns ok:false leaves a check-and-set
\* nonce store unchanged; a call that returns ok:true reserves exactly one
\* key when the winning candidate has a nonce, the key made of that
\* candidate's keyid and nonce, and none when it is replayable; no call
\* ever reserves more than one nonce, and the store holds nothing but what
\* the calls reserved.
C29_StoreFrame ==
    /\ store = UNION {{consumeLog[p][j].key : j \in ReservedBy(p)} :
                         p \in Calls}
    /\ \A p \in Calls :
          /\ Cardinality(ReservedBy(p)) <= 1
          /\ (Done(p) /\ ~result[p].ok) => ReservedBy(p) = {}
          /\ (Done(p) /\ result[p].ok) =>
                LET m == request.members[result[p].member]
                IN  IF HasNonce(m)
                    THEN /\ Cardinality(ReservedBy(p)) = 1
                         /\ \A j \in ReservedBy(p) :
                               /\ consumeLog[p][j].key = <<m.keyid, m.nonce>>
                               /\ consumeLog[p][j].member = result[p].member
                    ELSE ReservedBy(p) = {}

\* The first call reserved the key of its winner; the second call asked
\* for the same key, was refused, returned replay, and the store still
\* holds that one key.
C29_Witness ==
    /\ Accepted = {1}
    /\ Done(2) /\ result[2] = Failure("replay")
    /\ Len(consumeLog[2]) = 1 /\ ReservedBy(2) = {}
    /\ store = {<<KeyA, "n1">>}


\* ------------------------------------------------------ order of the checks
TimeReasons == {"bad_time", "not_yet_valid", "expired", "validity_too_long"}

NonceReasons ==
    {"replayable_not_allowed", "nonce_required", "nonce_window_too_long"}

DigestReasons == {"digest_required", "digest_mismatch"}

\* The check at which an attempt made from member m stops first, in the
\* order of the chain; "none" when m passes all of them.
FirstFailingCheck(m) ==
    IF ~InWindow(m) THEN "time"
    ELSE IF ~NoncePolicyOk(m) THEN "nonce"
    ELSE IF ~DigestOk(m) THEN "digest"
    ELSE IF BaseOf(m).thrown THEN "base"
    ELSE IF m.sig.kind = "empty" THEN "decoding"
    ELSE "none"

\* C30: within one attempt the checks run in the order time check, nonce
\* policy, content-digest check, signature-base construction and signature
\* decoding, verify function, nonce consumption, and the attempt stops at
\* its first failing check: the failure recorded for an attempt is that of
\* the first check its candidate fails, whatever later checks would say;
\* the digest computation is awaited only after the time and nonce checks
\* passed; the verify function is never called for an attempt whose time
\* check, nonce policy, content-digest check or signature decoding fails;
\* consume is called only after the verify function returned true.
C30_CheckOrder ==
    \A p \in Calls :
        /\ \A k \in 1..Len(examined[p]) :
              LET m == ExaminedMember(p, k)
                  i == attempts[p][examined[p][k]].candidate
                  first == FirstFailingCheck(m)
              IN  /\ first # "none" => ~Verified(p, i) /\ ~Consumed(p, i)
                  /\ Consumed(p, i) => "true" \in OutcomesOf(p, k)
                  /\ (k = Len(examined[p]) /\ pc[p] = "digest") =>
                        first \notin {"time", "nonce"}
                  /\ (k = Len(examined[p]) /\ pc[p] = "thrown") =>
                        first = "base"
                  /\ k <= Len(failures[p]) =>
                        /\ first = "time" => failures[p][k] \in TimeReasons
                        /\ first = "nonce" => failures[p][k] \in NonceReasons
                        /\ first = "digest" =>
                              failures[p][k] \in DigestReasons
                        /\ first = "decoding" =>
                              failures[p][k] = "bad_signature_bytes"
                        /\ first = "none" =>
                              failures[p][k] \in {"bad_signature",
                                                  "bad_signature_check",
                                                  "replay"}
        /\ \A j \in 1..Len(consumeLog[p]) :
              \E h \in 1..Len(verifyLog[p]) :
                 /\ verifyLog[p][h].member = consumeLog[p][j].member
                 /\ verifyLog[p][h].outcome = "true"

\* The only candidate has expires <= created, is replayable under a policy
\* that forbids it, covers content-digest on a request whose header does
\* not match and has an empty signature: the call returned bad_time and
\* neither the verify function nor the store was reached.
C30_Witness ==
    /\ Len(request.members) = 1
    /\ request.members[1].expires <= request.members[1].created
    /\ request.members[1].nonce = NULL /\ ~policy.replayable
    /\ "content-digest" \in Range(request.members[1].components)
    /\ request.contentDigest = "mismatch"
    /\ request.members[1].sig.kind = "empty"
    /\ Done(1) /\ result[1] = Failure("bad_time")
    /\ examined[1] # <<>> /\ verifyLog[1] = <<>> /\ consumeLog[1] = <<>>


\* ------------------------------------------------------ failing attempts
\* The store refused call p the nonce of the member at position i.
Refused(p, i) ==
    \E j \in 1..Len(consumeLog[p]) :
        consumeLog[p][j].member = i /\ ~consumeLog[p][j].consumed

\* The attempts of call p, among the first Cap in attempt order, that pass
\* every check: their candidate is admissible and the store did not refuse
\* its nonce.
PassingAttempts(p) ==
    {a \in 1..Len(attempts[p]) :
        /\ a <= Cap
        /\ Admissible(request.members[attempts[p][a].candidate])
        /\ ~Refused(p, attempts[p][a].candidate)}

\* Call p is over: it returned or threw.
Over(p) == pc[p] \in {"done", "thrown"}

\* C31: a failing attempt aborts only itself: if among the first N
\* attempts in attempt order (N the attempt cap) at least one passes every
\* check, verifyRequest returns ok:true for the earliest such attempt,
\* whatever way the attempts before it failed (time, nonce policy, digest,
\* signature bytes, signature check, or replay).
C31_EarliestPassingAttemptWins ==
    \A p \in Calls :
        (Over(p) /\ attempts[p] # <<>> /\ PassingAttempts(p) # {}) =>
            /\ Done(p)
            /\ result[p].ok
            /\ \E a \in PassingAttempts(p) :
                  /\ \A b \in PassingAttempts(p) : a <= b
                  /\ result[p].member = attempts[p][a].candidate


\* ------------------------------------------------------ classification
\* The configured class-bound policies, each as the set of its trimmed,
\* non-blank components with @authority added.
PolicySets ==
    [i \in 1..Len(policy.classBoundPolicies) |->
        ({trim(c) : c \in Range(policy.classBoundPolicies[i])} \ {""})
            \cup {"@authority"}]

\* The policies whose every component member m covers.
MatchedPolicies(m) ==
    {i \in 1..Len(policy.classBoundPolicies) :
        PolicySets[i] \subseteq Range(m.components)}

\* C32: a candidate whose components contain the request's mandatory set
\* is always classified request-bound, even when it also satisfies a
\* class-bound policy; a candidate is classified class-bound only if it is
\* not request-bound and contains every component of at least one
\* configured policy with @authority added; its policyLength is the length
\* of the shortest such policy; the binding field of an ok:true result
\* equals the classification of the winning candidate.
C32_Classification ==
    \A p \in Calls :
        (pc[p] # "idle" /\ request.sigHeaders = "ok") =>
            /\ \A i \in ValidCandidates :
                  LET m == request.members[i]
                      class == Classification(p, i)
                  IN  /\ RequestBoundShaped(m) => class[1] = "request-bound"
                      /\ class[1] = "class-bound" =>
                            /\ ~RequestBoundShaped(m)
                            /\ MatchedPolicies(m) # {}
                            /\ \E j \in MatchedPolicies(m) :
                                  /\ class[2] = Cardinality(PolicySets[j])
                                  /\ \A h \in MatchedPolicies(m) :
                                        Cardinality(PolicySets[j])
                                           <= Cardinality(PolicySets[h])
            /\ (Done(p) /\ result[p].ok) =>
                  result[p].binding = Classification(p, result[p].member)[1]

\* Under the policies [@method] and [@path, x-api] a POST carries a
\* candidate without content-digest that satisfies both: it was classified
\* class-bound with the length 2 of the shorter policy and won as such.
C32_Witness ==
    \E p \in Calls :
        /\ Done(p)
        /\ request.hasBody /\ ~request.hasQuery
        /\ Len(policy.classBoundPolicies) = 2
        /\ Range(request.members[1].components) =
              {"@authority", "@method", "@path", "x-api"}
        /\ MatchedPolicies(request.members[1]) = {1, 2}
        /\ Classification(p, 1) = <<"class-bound", 2>>
        /\ result[p].ok /\ result[p].member = 1
        /\ result[p].binding = "class-bound"


\* ------------------------------------------------------ attempt cap
\* C33: the effective attempt cap is always an integer of at least 1: for
\* every value of policy.maxSignatureVerifications (absent, zero, negative,
\* non-finite, not a number, or a positive fraction below 1), whenever at
\* least one attempt exists at least one attempt is examined, so that a
\* result of bad_signature always comes from an attempt for which the
\* verify function returned false.
C33_CapAtLeastOne ==
    \A p \in Calls :
        (Done(p) /\ attempts[p] # <<>>) =>
            /\ Len(examined[p]) >= 1
            /\ result[p] = Failure("bad_signature") =>
                  \E j \in 1..Len(verifyLog[p]) :
                      verifyLog[p][j].outcome = "false"


\* ------------------------------------------------------ emitted key identifiers
\* C34: every key identifier that formatKeyId returns without error is
\* accepted by parseKeyId: for every chainId and 20-byte address for which
\* formatKeyId does not throw (zero and negative integer chainIds
\* included), parseKeyId of the result is non-null and yields the same
\* chainId and the lowercased address, so that signRequest never emits a
\* keyid that verifyRequest rejects with bad_keyid.
C34_FormattedKeyIdParses ==
    ( /\ probe.fn = "formatKeyId" /\ probe.called
      /\ ~probe.out.thrown
      /\ ValidAddress(probe.args[2]) )
    => /\ probe.out.parsed.ok
       /\ probe.out.parsed.chainId = probe.args[1][1]
       /\ probe.out.parsed.address = toLowerCase(probe.args[2])


\* ------------------------------------------------------ nonce plan
\* C35: for an attempt carrying a nonce that passes the nonce policy,
\* consume is called with the key nonceKey(keyid, nonce) (by default
\* keyid, a colon, nonce) and ttlSeconds = max(0, expires - now); the TTL
\* is never negative; and an attempt (carrying a nonce and past the time
\* check, a nonce store being configured) whose expires - created exceeds
\* a configured maxNonceWindowSec fails with nonce_window_too_long without
\* reaching the verify function or consume.
C35_NoncePlan ==
    \A p \in Calls :
        /\ \A j \in 1..Len(consumeLog[p]) :
              LET entry == consumeLog[p][j]
                  m == request.members[entry.member]
              IN  /\ HasNonce(m) /\ NoncePolicyOk(m)
                  /\ entry.key = <<m.keyid, m.nonce>>
                  /\ entry.ttl >= 0
                  /\ entry.ttl = IF m.expires > policy.now
                                 THEN m.expires - policy.now ELSE 0
        /\ \A k \in 1..Len(examined[p]) :
              LET m == ExaminedMember(p, k)
                  i == attempts[p][examined[p][k]].candidate
              IN  ( /\ HasNonce(m) /\ InWindow(m) /\ policy.hasNonceStore
                    /\ policy.maxNonceWindowSec # <<>>
                    /\ m.expires - m.created > policy.maxNonceWindowSec[1] )
                  => /\ k <= Len(failures[p])
                     /\ failures[p][k] = "nonce_window_too_long"
                     /\ ~Verified(p, i) /\ ~Consumed(p, i)

\* A signature past its expires, inside the clock skew, was accepted and
\* its nonce reserved with a TTL of 0.
C35_Witness ==
    /\ Done(1) /\ result[1].ok
    /\ policy.now > request.members[1].expires
    /\ Len(consumeLog[1]) = 1
    /\ consumeLog[1][1].consumed
    /\ consumeLog[1][1].ttl = 0
    /\ consumeLog[1][1].key = <<KeyA, "n1">>


\* ------------------------------------------------------ validity cap
\* C36: the validity-window cap cannot be switched off through the policy:
\* when maxValiditySec is null, undefined, NaN or infinite the default of
\* 300 seconds applies, so that no signature with expires - created > 300
\* is ever accepted under such a policy (an attempt with such a window that
\* is in time fails with validity_too_long before the verify function).
C36_ValidityCapAlwaysOn ==
    \A p \in Calls :
        Len(policy.maxValiditySec) # 1 =>
            /\ (Done(p) /\ result[p].ok) =>
                  request.members[result[p].member].expires
                     - request.members[result[p].member].created
                        <= DEFAULT_MAX_VALIDITY_SEC
            /\ \A k \in 1..Len(examined[p]) :
                  LET m == ExaminedMember(p, k)
                  IN  ( /\ m.expires - m.created > DEFAULT_MAX_VALIDITY_SEC
                        /\ policy.now + policy.clockSkewSec >= m.created
                        /\ policy.now - policy.clockSkewSec <= m.expires )
                      => /\ k <= Len(failures[p])
                         /\ failures[p][k] = "validity_too_long"
                         /\ verifyLog[p] = <<>>

\* Under a maxValiditySec that is not finite a correctly signed request
\* valid for 301 seconds was refused with validity_too_long.
C36_Witness ==
    /\ Len(policy.maxValiditySec) = 3
    /\ request.members[1].expires - request.members[1].created
          = DEFAULT_MAX_VALIDITY_SEC + 1
    /\ request.members[1].sig.by = <<"0", "x", "a", "a">>
    /\ Done(1) /\ result[1] = Failure("validity_too_long")
    /\ verifyLog[1] = <<>> /\ store = {}


\* ------------------------------------------------------ emitted validity window
\* created and the effective expires of the sign options, in tenths of a
\* second: expires, or created + ttlSeconds (60 by default).
OptionCreated == Tenths(SignOpts.created)

OptionExpires ==
    IF SignOpts.expires # <<>> THEN Tenths(SignOpts.expires)
    ELSE OptionCreated + (IF SignOpts.ttlSeconds = <<>> THEN 600
                          ELSE Tenths(SignOpts.ttlSeconds))

\* The options name a time that is not an integer, or a window that is
\* empty.
BadWindowOptions ==
    \/ OptionCreated % 10 # 0
    \/ OptionExpires % 10 # 0
    \/ OptionExpires <= OptionCreated

\* The Content-Digest step of this call fails on its own account.
DigestStepFails ==
    /\ SignInput.hasBody
    /\ SignOpts.binding = "request-bound"
    /\ \/ SignOpts.contentDigest = "off"
       \/ /\ SignOpts.contentDigest = "require"
          /\ SignInput.contentDigest \in {"absent", "empty"}

BoundedExamination(p) ==
    /\ Len(examined[p]) <= Cap
    /\ Len(examined[p]) <= Len(attempts[p])
    /\ \A j, k \in 1..Len(examined[p]) :
          j # k => examined[p][j] # examined[p][k]

\* C38: every verifyRequest call terminates with a result after examining
\* at most min(attempt cap, number of attempts) attempts, provided each
\* call to the verify function and to nonceStore.consume returns or
\* raises; no attempt is examined twice within a call.
C38_TerminatesWithResult ==
    /\ [](\A p \in Calls : BoundedExamination(p))
    /\ \A p \in Calls : (pc[p] # "idle") ~> Done(p)

====
